---------------------------- MODULE Spec2Model ----------------------------
(***************************************************************************)
(* A model of monaco-liquid: the structural validator of Liquid templates  *)
(* (validateLiquidSyntax), the debounced validation attachment             *)
(* (setModelLiquidValidation), the schema path resolver (unwrapSchema /    *)
(* navigateSchema) and the hover and completion providers.                 *)
(*                                                                         *)
(* The repository holds two revisions of the same source file.  The model  *)
(* follows the current one, src/unnamed/part_001 (debounce, disposable,    *)
(* frames with a length, wrapper unwrapping, findLastIndex for the output  *)
(* close).  src/index.ts is the earlier revision of that file.             *)
(*                                                                         *)
(* Document text is a string.  The four regular expressions of the         *)
(* validator are modelled character by character on that string.           *)
(***************************************************************************)
EXTENDS Integers, Sequences, FiniteSets, TLC

VARIABLES
    text,       \* validator pass: model.getValue() of the document being scanned
    lines,      \* validator pass: text.split(/\r?\n/)
    lineIdx,    \* validator pass: index of the forEach callback (0-based)
    work,       \* validator pass: the regex matches of the current line still to be replayed
    stack,      \* validator pass: the stack of pending tag frames
    markers,    \* validator pass: the markers collected so far
    pc,         \* validator pass: position in validateLiquidSyntax
    published,  \* validator pass: the markers handed to setModelMarkers
    lastStep,   \* validator pass: the match replayed by the latest step (history)
    earlier,    \* validator pass: the text and markers of every pass published so far (history)
    rSchema,    \* resolver: the descriptor a path is resolved against
    rPath,      \* resolver: the path
    rWhole,     \* resolver: navigateSchema(rSchema, rPath)
    rHead,      \* resolver: navigateSchema(rSchema, <<first segment>>)
    rRest,      \* resolver: navigateSchema(rHead, the other segments)
    rpc,        \* resolver: which of the three calls have returned
    rType,      \* resolver: getTypeString(rSchema)
    rInfo,      \* resolver: getTypeInfoFromSchema(rSchema, rPath)
    value,      \* editor: model.getValue() of each text model
    schemas,    \* editor: the schemas property stored on each text model
    modelMarkers, \* editor: the markers of owner 'liquid' on each text model
    att,        \* editor: the closure of each setModelLiquidValidation call
    timers,     \* editor: the host's pending timeouts (window.setTimeout)
    hist,       \* editor: per attachment, what happened since its last notification (history)
    qSchemas,   \* request: model.schemas of the model of the request
    qLine,      \* request: model.getLineContent(position.lineNumber)
    qColumn,    \* request: position.column
    qPath,      \* request: what getVariablePathAtPosition returned
    qHover,     \* request: what provideHover returned
    qItems,     \* request: what provideCompletionItems returned
    qpc         \* request: which of the three calls have returned

scanVars == <<text, lines, lineIdx, work, stack, markers, pc, published, lastStep, earlier>>

resolveVars == <<rSchema, rPath, rWhole, rHead, rRest, rpc, rType, rInfo>>

editorVars == <<value, schemas, modelMarkers, att, timers, hist>>

requestVars == <<qSchemas, qLine, qColumn, qPath, qHover, qItems, qpc>>

vars == <<scanVars, resolveVars, editorVars, requestVars>>

-----------------------------------------------------------------------------
(* Bounds of the model.                                                    *)

\* the longest document of the validator's specification, in fragments
MaxFrags == 4

\* the deepest descriptor of the resolver's specification: constructors around a leaf
MaxDepth == 3

\* the longest path of the resolver's specification, in segments
MaxPath == 2

\* how many times setModelLiquidValidation is called in the editor's specification
MaxAttachments == 2

\* the longest debounce delay of the editor's specification, in ticks of its clock
MaxDebounce == 2

\* the longest of the short lines of the request's specification, in characters
MaxChars == 3

-----------------------------------------------------------------------------
(* The specifications of this module share its variables.  Each leaves the *)
(* variables of the parts it does not run at the values below.             *)

\* the text models of the editor
Models == {"m1", "m2"}

\* the calls of setModelLiquidValidation, in the order they are made
AttIds == 1..MaxAttachments

\* lastStep while no match has been replayed
NoStep == [type |-> "none"]

\* model.schemas of a model on which setModelLiquidValidation was never called
NoSchemas == [defined |-> FALSE]

\* validationTimeout === undefined
Undefined == 0

\* the closure of a call that has not been made yet
FreeAttachment ==
    [state |-> "free", model |-> "", schemas |-> <<>>, debounceMs |-> 0,
     validationTimeout |-> Undefined, listening |-> FALSE]

\* the history of an attachment that has had no change notification
NoHistory ==
    [notified |-> FALSE, rapid |-> FALSE, since |-> 0, passes |-> 0, early |-> FALSE,
     passMarkers |-> <<>>, zombie |-> FALSE, republished |-> FALSE]

\* the validator's variables while no pass is stepped through
ScanIdle ==
    /\ text = ""
    /\ lines = <<>>
    /\ lineIdx = 0
    /\ work = <<>>
    /\ stack = <<>>
    /\ markers = <<>>
    /\ pc = "idle"
    /\ published = <<>>
    /\ lastStep = NoStep
    /\ earlier = {}

\* the resolver's variables while no path is being resolved
ResolveIdle ==
    /\ rSchema = [type |-> "none"]
    /\ rPath = <<>>
    /\ rWhole = [type |-> "none"]
    /\ rHead = [type |-> "none"]
    /\ rRest = [type |-> "none"]
    /\ rpc = "idle"
    /\ rType = ""
    /\ rInfo = [found |-> FALSE]

\* the editor's variables while there is no editor
EditorIdle ==
    /\ value = [mdl \in Models |-> ""]
    /\ schemas = [mdl \in Models |-> NoSchemas]
    /\ modelMarkers = [mdl \in Models |-> <<>>]
    /\ att = [a \in AttIds |-> FreeAttachment]
    /\ timers = {}
    /\ hist = [a \in AttIds |-> NoHistory]

\* a call that has not returned
NotAsked == [kind |-> "none"]

\* the request's variables while there is no request
RequestIdle ==
    /\ qSchemas = NoSchemas
    /\ qLine = ""
    /\ qColumn = 1
    /\ qPath = NotAsked
    /\ qHover = NotAsked
    /\ qItems = NotAsked
    /\ qpc = "idle"

-----------------------------------------------------------------------------
(* Characters and character classes of JavaScript regular expressions.     *)

\* s[i] for a 0-based index, "" past the end (JavaScript: undefined)
At(s, i) == IF i >= 0 /\ i < Len(s) THEN SubSeq(s, i + 1, i + 1) ELSE ""

\* s.substring(from, to) for 0 <= from <= to <= s.length
Substring(s, from, to) == IF from >= to THEN "" ELSE SubSeq(s, from + 1, to)

Digits == {"0", "1", "2", "3", "4", "5", "6", "7", "8", "9"}

LowerCase == {"a", "b", "c", "d", "e", "f", "g", "h", "i", "j", "k", "l", "m",
              "n", "o", "p", "q", "r", "s", "t", "u", "v", "w", "x", "y", "z"}

UpperCase == {"A", "B", "C", "D", "E", "F", "G", "H", "I", "J", "K", "L", "M",
              "N", "O", "P", "Q", "R", "S", "T", "U", "V", "W", "X", "Y", "Z"}

\* \w
WordChars == LowerCase \cup UpperCase \cup Digits \cup {"_"}

\* \s (the white space that can stand inside one line)
SpaceChars == {" ", "\t", "\f"}

RECURSIVE SkipWhile(_, _, _)
\* the end of the longest run of characters of class cls that starts at i (a greedy X*)
SkipWhile(s, i, cls) ==
    IF i < Len(s) /\ At(s, i) \in cls THEN SkipWhile(s, i + 1, cls) ELSE i

RECURSIVE SkipUntil(_, _, _)
\* the end of the longest run of characters other than c that starts at i (a greedy [^c]*)
SkipUntil(s, i, c) ==
    IF i < Len(s) /\ At(s, i) # c THEN SkipUntil(s, i + 1, c) ELSE i

\* tag.startsWith('end')
StartsWithEnd(tag) == Len(tag) >= 3 /\ Substring(tag, 0, 3) = "end"

-----------------------------------------------------------------------------
(* text.split(/\r?\n/)                                                      *)

RECURSIVE SplitFrom(_, _, _)
SplitFrom(s, start, i) ==
    IF i >= Len(s) THEN <<Substring(s, start, Len(s))>>
    ELSE IF At(s, i) = "\r" /\ At(s, i + 1) = "\n"
         THEN <<Substring(s, start, i)>> \o SplitFrom(s, i + 2, i + 2)
    ELSE IF At(s, i) = "\n"
         THEN <<Substring(s, start, i)>> \o SplitFrom(s, i + 1, i + 1)
    ELSE SplitFrom(s, start, i + 1)

SplitLines(s) == SplitFrom(s, 0, 0)

-----------------------------------------------------------------------------
(* The regular expressions of validateLiquidSyntax.  Each Match operator   *)
(* gives the end of the match that starts at index i, or -1 when the       *)
(* expression does not match there; each Exec operator lists the matches   *)
(* the exec loop of the source sees, left to right, resuming after a match.*)

\* outputStartRegex = /\{\{-?/g
outputStartMatch(s, i) ==
    IF At(s, i) = "{" /\ At(s, i + 1) = "{"
    THEN (IF At(s, i + 2) = "-" THEN i + 3 ELSE i + 2)
    ELSE -1

\* outputEndRegex = /-?\}\}/g
outputEndMatch(s, i) ==
    IF At(s, i) = "-" /\ At(s, i + 1) = "}" /\ At(s, i + 2) = "}" THEN i + 3
    ELSE IF At(s, i) = "}" /\ At(s, i + 1) = "}" THEN i + 2
    ELSE -1

\* where the tag name of a tag that opens at i starts: after {% , -? and \s*
TagNameStart(s, i) ==
    SkipWhile(s, (IF At(s, i + 2) = "-" THEN i + 3 ELSE i + 2), SpaceChars)

\* tagRegex = /{%-?\s*(\w+)(?:\s[^%]*)?-?%}/g
tagMatch(s, i) ==
    IF ~(At(s, i) = "{" /\ At(s, i + 1) = "%") THEN -1
    ELSE LET j == TagNameStart(s, i)
             w == SkipWhile(s, j, WordChars)
             q == SkipUntil(s, w + 1, "%")
         IN  IF w = j THEN -1
             ELSE IF At(s, w) \in SpaceChars
                  THEN (IF At(s, q) = "%" /\ At(s, q + 1) = "}" THEN q + 2 ELSE -1)
             ELSE IF At(s, w) = "-" /\ At(s, w + 1) = "%" /\ At(s, w + 2) = "}"
                  THEN w + 3
             ELSE IF At(s, w) = "%" /\ At(s, w + 1) = "}" THEN w + 2
             ELSE -1

\* match[1] of tagRegex for a match that starts at i
tagName(s, i) ==
    LET j == TagNameStart(s, i) IN Substring(s, j, SkipWhile(s, j, WordChars))

\* endTagRegex = /{%-?\s*end(\w+)\s*-?%}/g
endTagMatch(s, i) ==
    IF ~(At(s, i) = "{" /\ At(s, i + 1) = "%") THEN -1
    ELSE LET j == TagNameStart(s, i)
             w == SkipWhile(s, j + 3, WordChars)
             k == SkipWhile(s, w, SpaceChars)
             d == IF At(s, k) = "-" THEN k + 1 ELSE k
         IN  IF j + 3 > Len(s) \/ Substring(s, j, j + 3) # "end" \/ w = j + 3 THEN -1
             ELSE IF At(s, d) = "%" /\ At(s, d + 1) = "}" THEN d + 2
             ELSE -1

\* match[1] of endTagRegex for a match that starts at i
endTagName(s, i) ==
    LET j == TagNameStart(s, i) IN Substring(s, j + 3, SkipWhile(s, j + 3, WordChars))

RECURSIVE execOutputStart(_, _)
execOutputStart(s, i) ==
    IF i >= Len(s) THEN <<>>
    ELSE IF outputStartMatch(s, i) >= 0
         THEN <<[kind |-> "output", type |-> "start", index |-> i, tag |-> "",
                 length |-> outputStartMatch(s, i) - i]>>
              \o execOutputStart(s, outputStartMatch(s, i))
    ELSE execOutputStart(s, i + 1)

RECURSIVE execOutputEnd(_, _)
execOutputEnd(s, i) ==
    IF i >= Len(s) THEN <<>>
    ELSE IF outputEndMatch(s, i) >= 0
         THEN <<[kind |-> "output", type |-> "end", index |-> i, tag |-> "",
                 length |-> outputEndMatch(s, i) - i]>>
              \o execOutputEnd(s, outputEndMatch(s, i))
    ELSE execOutputEnd(s, i + 1)

RECURSIVE execTag(_, _)
execTag(s, i) ==
    IF i >= Len(s) THEN <<>>
    ELSE IF tagMatch(s, i) >= 0
         THEN <<[kind |-> "tag", type |-> "tag", index |-> i, tag |-> tagName(s, i),
                 length |-> tagMatch(s, i) - i]>>
              \o execTag(s, tagMatch(s, i))
    ELSE execTag(s, i + 1)

RECURSIVE execEndTag(_, _)
execEndTag(s, i) ==
    IF i >= Len(s) THEN <<>>
    ELSE IF endTagMatch(s, i) >= 0
         THEN <<[kind |-> "endTag", type |-> "endTag", index |-> i,
                 tag |-> endTagName(s, i), length |-> endTagMatch(s, i) - i]>>
              \o execEndTag(s, endTagMatch(s, i))
    ELSE execEndTag(s, i + 1)

RECURSIVE InsertByIndex(_, _)
\* m put into the list ms, which is sorted by index, after the entries that do not exceed it
InsertByIndex(ms, m) ==
    IF ms = <<>> THEN <<m>>
    ELSE IF Head(ms).index <= m.index THEN <<Head(ms)>> \o InsertByIndex(Tail(ms), m)
    ELSE <<m>> \o ms

RECURSIVE SortByIndex(_)
\* outputMatches.sort((a, b) => a.index - b.index): a stable sort by index
SortByIndex(ms) ==
    IF ms = <<>> THEN <<>>
    ELSE InsertByIndex(SortByIndex(SubSeq(ms, 1, Len(ms) - 1)), ms[Len(ms)])

\* the output delimiters of a line in the order the forEach replays them
outputMatches(lineContent) ==
    SortByIndex(execOutputStart(lineContent, 0) \o execOutputEnd(lineContent, 0))

\* the matches of a line replayed by column, whatever their kind
LineWork_ByColumn(lineContent) ==
    SortByIndex(execOutputStart(lineContent, 0) \o execOutputEnd(lineContent, 0)
                \o execTag(lineContent, 0) \o execEndTag(lineContent, 0))

\* what one line makes the validator do, in the order the source does it: the
\* sorted output delimiters, then the tagRegex loop, then the endTagRegex loop
LineWork(lineContent) ==
    outputMatches(lineContent) \o execTag(lineContent, 0) \o execEndTag(lineContent, 0)

-----------------------------------------------------------------------------
(* validateLiquidSyntax: what each replayed match does to the stack of     *)
(* frames and to the list of markers.  A state of the pass is a record     *)
(* [stack, markers]; the top of the stack is its last element.             *)

blockTags ==
    {"if", "unless", "case", "for", "tablerow", "comment", "raw", "capture", "form",
     "paginate", "layout", "block", "schema", "stylesheet", "javascript", "liquid"}

isBlockTag(tag) == tag \in blockTags

\* a marker (monaco.editor.IMarkerData) of severity MarkerSeverity.Error
Marker(message, startLineNumber, startColumn, endLineNumber, endColumn) ==
    [severity |-> "Error", message |-> message,
     startLineNumber |-> startLineNumber, startColumn |-> startColumn,
     endLineNumber |-> endLineNumber, endColumn |-> endColumn]

RECURSIVE findLastIndex(_, _)
\* stack.findLastIndex((item) => item.tag === tag), 0-based, -1 when there is none
findLastIndex(stk, tag) ==
    IF stk = <<>> THEN -1
    ELSE IF stk[Len(stk)].tag = tag THEN Len(stk) - 1
    ELSE findLastIndex(SubSeq(stk, 1, Len(stk) - 1), tag)

\* stack.splice(i, 1) for a 0-based i
splice(stk, i) == SubSeq(stk, 1, i) \o SubSeq(stk, i + 2, Len(stk))

\* stack.pop(): the stack that is left
pop(stk) == SubSeq(stk, 1, Len(stk) - 1)

\* an output-open delimiter: push an output frame
applyOutputStart(st, m, lineNumber) ==
    [st EXCEPT !.stack = Append(@, [tag |-> "output", lineNumber |-> lineNumber,
                                    column |-> m.index + 1, length |-> 2])]

\* applyOutputEnd that pops the top frame when the stack holds an output frame
applyOutputEnd_PopTop(st, m, lineNumber) ==
    LET outputIndex == findLastIndex(st.stack, "output")
    IN  IF outputIndex = -1
        THEN [st EXCEPT !.markers =
                 Append(@, Marker("Unmatched closing '}}'",
                                  lineNumber, m.index + 1, lineNumber, m.index + 3))]
        ELSE [st EXCEPT !.stack = pop(@)]

\* applyOutputEnd without the splice: a matched output frame stays on the stack
applyOutputEnd_KeepFrame(st, m, lineNumber) ==
    LET outputIndex == findLastIndex(st.stack, "output")
    IN  IF outputIndex = -1
        THEN [st EXCEPT !.markers =
                 Append(@, Marker("Unmatched closing '}}'",
                                  lineNumber, m.index + 1, lineNumber, m.index + 3))]
        ELSE st

\* an output-close delimiter: remove the nearest output frame, or report the delimiter
applyOutputEnd(st, m, lineNumber) ==
    LET outputIndex == findLastIndex(st.stack, "output")
    IN  IF outputIndex = -1
        THEN [st EXCEPT !.markers =
                 Append(@, Marker("Unmatched closing '}}'",
                                  lineNumber, m.index + 1, lineNumber, m.index + 3))]
        ELSE [st EXCEPT !.stack = splice(@, outputIndex)]

\* a match of tagRegex: push a frame when the name is a block tag
\* the tag loop without isBlockTag: every tag that does not start with "end" is pushed
applyTag_AnyName(st, m, lineNumber) ==
    IF ~StartsWithEnd(m.tag)
    THEN [st EXCEPT !.stack = Append(@, [tag |-> m.tag, lineNumber |-> lineNumber,
                                         column |-> m.index + 1, length |-> m.length])]
    ELSE st

applyTag(st, m, lineNumber) ==
    IF ~StartsWithEnd(m.tag) /\ isBlockTag(m.tag)
    THEN [st EXCEPT !.stack = Append(@, [tag |-> m.tag, lineNumber |-> lineNumber,
                                         column |-> m.index + 1, length |-> m.length])]
    ELSE st

\* applyEndTag with the report on an empty stack left out
applyEndTag_SilentOnEmpty(st, m, lineNumber) ==
    IF Len(st.stack) = 0 THEN st
    ELSE LET last == st.stack[Len(st.stack)]
         IN  IF last.tag # m.tag
             THEN [stack |-> pop(st.stack),
                   markers |-> Append(st.markers,
                       Marker("Expected 'end" \o last.tag \o "' but found 'end"
                                  \o m.tag \o "'",
                              lineNumber, m.index + 1,
                              lineNumber, m.index + m.length + 1))]
             ELSE [st EXCEPT !.stack = pop(@)]

\* applyEndTag that keeps the top frame when its tag is not the closing tag's
applyEndTag_KeepOnMismatch(st, m, lineNumber) ==
    IF Len(st.stack) = 0
    THEN [st EXCEPT !.markers =
             Append(@, Marker("Unmatched end tag 'end" \o m.tag \o "'",
                              lineNumber, m.index + 1,
                              lineNumber, m.index + m.length + 1))]
    ELSE LET last == st.stack[Len(st.stack)]
         IN  IF last.tag # m.tag
             THEN [st EXCEPT !.markers =
                      Append(@, Marker("Expected 'end" \o last.tag \o "' but found 'end"
                                           \o m.tag \o "'",
                                       lineNumber, m.index + 1,
                                       lineNumber, m.index + m.length + 1))]
             ELSE [st EXCEPT !.stack = pop(@)]

\* a match of endTagRegex: report it on an empty stack, else pop and compare
applyEndTag(st, m, lineNumber) ==
    IF Len(st.stack) = 0
    THEN [st EXCEPT !.markers =
             Append(@, Marker("Unmatched end tag 'end" \o m.tag \o "'",
                              lineNumber, m.index + 1,
                              lineNumber, m.index + m.length + 1))]
    ELSE LET last == st.stack[Len(st.stack)]
         IN  IF last.tag # m.tag
             THEN [stack |-> pop(st.stack),
                   markers |-> Append(st.markers,
                       Marker("Expected 'end" \o last.tag \o "' but found 'end"
                                  \o m.tag \o "'",
                              lineNumber, m.index + 1,
                              lineNumber, m.index + m.length + 1))]
             ELSE [st EXCEPT !.stack = pop(@)]

\* one replayed match of a line
applyMatch(st, m, lineNumber) ==
    CASE m.type = "start"  -> applyOutputStart(st, m, lineNumber)
      [] m.type = "end"    -> applyOutputEnd(st, m, lineNumber)
      [] m.type = "tag"    -> applyTag(st, m, lineNumber)
      [] m.type = "endTag" -> applyEndTag(st, m, lineNumber)

\* a drain that takes the frames from the bottom of the stack (stack.shift())
drainOne_BottomFirst(st) ==
    LET unmatchedTag == st.stack[1]
        message == IF unmatchedTag.tag = "output"
                   THEN "Unclosed output tag '{{'"
                   ELSE "Unclosed tag '" \o unmatchedTag.tag \o "'"
    IN  [stack |-> Tail(st.stack),
         markers |-> Append(st.markers,
             Marker(message, unmatchedTag.lineNumber, unmatchedTag.column,
                    unmatchedTag.lineNumber,
                    unmatchedTag.column + unmatchedTag.length))]

\* drainOne with a marker of no width (endColumn: unmatchedTag.column)
drainOne_NoLength(st) ==
    LET unmatchedTag == st.stack[Len(st.stack)]
        message == IF unmatchedTag.tag = "output"
                   THEN "Unclosed output tag '{{'"
                   ELSE "Unclosed tag '" \o unmatchedTag.tag \o "'"
    IN  [stack |-> pop(st.stack),
         markers |-> Append(st.markers,
             Marker(message, unmatchedTag.lineNumber, unmatchedTag.column,
                    unmatchedTag.lineNumber, unmatchedTag.column))]

\* one turn of the final while loop: pop a frame and report it as unclosed
drainOne(st) ==
    LET unmatchedTag == st.stack[Len(st.stack)]
        message == IF unmatchedTag.tag = "output"
                   THEN "Unclosed output tag '{{'"
                   ELSE "Unclosed tag '" \o unmatchedTag.tag \o "'"
    IN  [stack |-> pop(st.stack),
         markers |-> Append(st.markers,
             Marker(message, unmatchedTag.lineNumber, unmatchedTag.column,
                    unmatchedTag.lineNumber,
                    unmatchedTag.column + unmatchedTag.length))]

RECURSIVE replayWork(_, _, _)
\* the matches of one line replayed in order
replayWork(st, ms, lineNumber) ==
    IF ms = <<>> THEN st
    ELSE replayWork(applyMatch(st, Head(ms), lineNumber), Tail(ms), lineNumber)

RECURSIVE replayLines(_, _, _)
\* lines.forEach from index i on
replayLines(st, ls, i) ==
    IF i >= Len(ls) THEN st
    ELSE replayLines(replayWork(st, LineWork(ls[i + 1]), i + 1), ls, i + 1)

RECURSIVE drainAll(_)
\* while (stack.length > 0) { ... }
drainAll(st) == IF Len(st.stack) = 0 THEN st ELSE drainAll(drainOne(st))

\* the markers validateLiquidSyntax hands to setModelMarkers for a document text
validateLiquidSyntax(t) ==
    drainAll(replayLines([stack |-> <<>>, markers |-> <<>>], SplitLines(t), 0)).markers

-----------------------------------------------------------------------------
(* Documents the validator is run on: every concatenation of at most       *)
(* MaxFrags fragments.                                                     *)

Fragments ==
    {"{{", " y }}", "\n",
     "{% if x %}", "{% endif %}", "{% for y %}", "{% endfor %}", "{% assign z %}"}

RECURSIVE Join(_)
Join(fs) == IF fs = <<>> THEN "" ELSE Head(fs) \o Join(Tail(fs))

Documents == {Join(fs) : fs \in UNION {[1..n -> Fragments] : n \in 0..MaxFrags}}

\* an unclosed output-open on a line between an if and its endif
OutputBetween == "{% if x %}\n{{\n{% endif %}"

-----------------------------------------------------------------------------
(* One validation pass, step by step (specification ScanSpec): the pass    *)
(* splits the text, replays the matches of each line, drains the stack and *)
(* publishes the markers.                                                  *)

\* what a step leaves in lastStep: the match, its line, and the pass state before it
StepRecord(m, lineNumber) ==
    [type |-> m.type, match |-> m, lineNumber |-> lineNumber,
     stackBefore |-> stack, markersBefore |-> markers]

ScanInit ==
    /\ text \in Documents \cup {OutputBetween}
    /\ lines = <<>>
    /\ lineIdx = 0
    /\ work = <<>>
    /\ stack = <<>>
    /\ markers = <<>>
    /\ pc = "start"
    /\ published = <<>>
    /\ lastStep = NoStep
    /\ earlier = {}
    /\ ResolveIdle
    /\ EditorIdle
    /\ RequestIdle

\* StartPass with the markers array kept from the pass before
StartPass_KeepMarkers ==
    /\ pc = "start"
    /\ lines' = SplitLines(text)
    /\ lineIdx' = 0
    /\ work' = LineWork(lines'[1])
    /\ stack' = <<>>
    /\ pc' = "scan"
    /\ lastStep' = NoStep
    /\ UNCHANGED <<text, published, markers>>
    /\ UNCHANGED <<earlier, resolveVars, editorVars, requestVars>>

\* const text = model.getValue(); const lines = text.split(/\r?\n/); first line entered
StartPass ==
    /\ pc = "start"
    /\ lines' = SplitLines(text)
    /\ lineIdx' = 0
    /\ work' = LineWork(lines'[1])
    /\ stack' = <<>>
    /\ markers' = <<>>
    /\ pc' = "scan"
    /\ lastStep' = NoStep
    /\ UNCHANGED <<text, published>>
    /\ UNCHANGED <<earlier, resolveVars, editorVars, requestVars>>

\* the replay of the next match of the current line
Replay(type) ==
    /\ pc = "scan"
    /\ work # <<>>
    /\ Head(work).type = type
    /\ LET st == applyMatch([stack |-> stack, markers |-> markers], Head(work),
                            lineIdx + 1)
       IN  /\ stack' = st.stack
           /\ markers' = st.markers
    /\ work' = Tail(work)
    /\ lastStep' = StepRecord(Head(work), lineIdx + 1)
    /\ UNCHANGED <<text, lines, lineIdx, pc, published>>
    /\ UNCHANGED <<earlier, resolveVars, editorVars, requestVars>>

OutputStartStep == Replay("start")

OutputEndStep == Replay("end")

TagStep == Replay("tag")

EndTagStep == Replay("endTag")

\* the forEach callback of the next line is entered
NextLine ==
    /\ pc = "scan"
    /\ work = <<>>
    /\ lineIdx + 1 < Len(lines)
    /\ lineIdx' = lineIdx + 1
    /\ work' = LineWork(lines[lineIdx + 2])
    /\ lastStep' = NoStep
    /\ UNCHANGED <<text, lines, stack, markers, pc, published>>
    /\ UNCHANGED <<earlier, resolveVars, editorVars, requestVars>>

\* the forEach is over
EndOfLines ==
    /\ pc = "scan"
    /\ work = <<>>
    /\ lineIdx + 1 >= Len(lines)
    /\ pc' = "drain"
    /\ lastStep' = NoStep
    /\ UNCHANGED <<text, lines, lineIdx, work, stack, markers, published>>
    /\ UNCHANGED <<earlier, resolveVars, editorVars, requestVars>>

\* one turn of the final while loop
DrainStep ==
    /\ pc = "drain"
    /\ Len(stack) > 0
    /\ LET st == drainOne([stack |-> stack, markers |-> markers])
       IN  /\ stack' = st.stack
           /\ markers' = st.markers
    /\ lastStep' = [type |-> "drain", stackBefore |-> stack, markersBefore |-> markers]
    /\ UNCHANGED <<text, lines, lineIdx, work, pc, published>>
    /\ UNCHANGED <<earlier, resolveVars, editorVars, requestVars>>

\* monacoInstance.editor.setModelMarkers(model, 'liquid', markers)
Publish ==
    /\ pc = "drain"
    /\ Len(stack) = 0
    /\ published' = markers
    /\ earlier' = earlier \cup {[text |-> text, markers |-> markers]}
    /\ pc' = "done"
    /\ lastStep' = NoStep
    /\ UNCHANGED <<text, lines, lineIdx, work, stack, markers>>
    /\ UNCHANGED <<resolveVars, editorVars, requestVars>>

ScanNext ==
    \/ StartPass
    \/ OutputStartStep
    \/ OutputEndStep
    \/ TagStep
    \/ EndTagStep
    \/ NextLine
    \/ EndOfLines
    \/ DrainStep
    \/ Publish

ScanSpec == ScanInit /\ [][ScanNext]_vars

\* the stepwise pass publishes what validateLiquidSyntax computes
ScanAgrees == pc = "done" => published = validateLiquidSyntax(text)

-----------------------------------------------------------------------------
(* Reference notions of the validator's properties: the constructs of a    *)
(* document in document order, and strict nesting.  They are what the      *)
(* properties compare the validator with, and are not part of it.          *)

RECURSIVE WithLine(_, _)
WithLine(ms, lineNumber) ==
    IF ms = <<>> THEN <<>>
    ELSE <<[type |-> Head(ms).type, tag |-> Head(ms).tag, index |-> Head(ms).index,
            length |-> Head(ms).length, lineNumber |-> lineNumber]>>
         \o WithLine(Tail(ms), lineNumber)

IsBlockOpen(m) == isBlockTag(m.tag)

\* the delimiters, opening block tags and closing tags of a line, left to right
LineConstructs(lineContent) ==
    SortByIndex(execOutputStart(lineContent, 0) \o execOutputEnd(lineContent, 0)
                \o SelectSeq(execTag(lineContent, 0), IsBlockOpen)
                \o execEndTag(lineContent, 0))

RECURSIVE ConstructsFrom(_, _)
ConstructsFrom(ls, i) ==
    IF i > Len(ls) THEN <<>>
    ELSE WithLine(LineConstructs(ls[i]), i) \o ConstructsFrom(ls, i + 1)

\* the constructs of a document in document order
DocConstructs(t) == ConstructsFrom(SplitLines(t), 1)

RECURSIVE Nested(_, _)
\* the constructs cs close, strictly nested, exactly the open constructs opens
Nested(cs, opens) ==
    IF cs = <<>> THEN opens = <<>>
    ELSE LET c == Head(cs)
         IN  CASE c.type = "start" -> Nested(Tail(cs), Append(opens, "output"))
               [] c.type = "tag"   -> Nested(Tail(cs), Append(opens, c.tag))
               [] c.type = "end"   ->
                    /\ opens # <<>>
                    /\ opens[Len(opens)] = "output"
                    /\ Nested(Tail(cs), pop(opens))
               [] c.type = "endTag" ->
                    /\ opens # <<>>
                    /\ opens[Len(opens)] = c.tag
                    /\ c.tag # "output"
                    /\ Nested(Tail(cs), pop(opens))

\* every block tag closed by its end tag, every output-open by an output-close, nested
WellFormed(t) == Nested(DocConstructs(t), <<>>)

RemoveAt(cs, p) == SubSeq(cs, 1, p - 1) \o SubSeq(cs, p + 1, Len(cs))

\* the opening block tags whose removal leaves a well-formed document
UnclosedCandidates(t) ==
    LET cs == DocConstructs(t)
    IN  {p \in 1..Len(cs) : cs[p].type = "tag" /\ Nested(RemoveAt(cs, p), <<>>)}

\* the text a marker spans
MarkedText(m) == Substring(lines[m.startLineNumber], m.startColumn - 1, m.endColumn - 1)

-----------------------------------------------------------------------------
(* Properties of the validator, checked under ScanSpec.                    *)

\* C1 (as claimed): a validation pass over a well-formed document (every block tag
\* closed by its end tag, every output-open by an output-close, properly nested,
\* several pairs on one line allowed) publishes no diagnostic.
C1_WellFormedNoDiagnostics ==
    (pc = "done" /\ WellFormed(text)) => published = <<>>

\* C2 (as claimed): for a document with exactly one unclosed block tag, all other
\* constructs closed and nested, the pass publishes exactly one diagnostic, an
\* "Unclosed tag" naming that tag at the line and column where the tag opens.
C2_OneUnclosedOneDiagnostic ==
    (pc = "done" /\ UnclosedCandidates(text) # {}) =>
        \E p \in UnclosedCandidates(text) :
            LET c == DocConstructs(text)[p]
            IN  /\ Len(published) = 1
                /\ published[1].message = "Unclosed tag '" \o c.tag \o "'"
                /\ published[1].startLineNumber = c.lineNumber
                /\ published[1].startColumn = c.index + 1

Input3 == "{% if x %}{{ y }}"

\* C3 (as claimed): for `{% if x %}{{ y }}` the pass yields exactly two diagnostics,
\* an unclosed output followed by an unclosed `if`.
C3_TwoDiagnosticsOutputFirst ==
    (pc = "done" /\ text = Input3) =>
        /\ Len(published) = 2
        /\ published[1].message = "Unclosed output tag '{{'"
        /\ published[2].message = "Unclosed tag 'if'"

\* C3 (amended): for `{% if x %}{{ y }}` the output expression is closed, and the
\* pass yields exactly one diagnostic: "Unclosed tag 'if'", spanning the opening tag
\* at line 1, columns 1 to 11.
C3_OnlyUnclosedIf ==
    (pc = "done" /\ text = Input3) =>
        published = <<Marker("Unclosed tag 'if'", 1, 1, 1, 11)>>

C3_Witness == pc = "done" /\ text = Input3 /\ Len(published) = 1

\* C4: a closing tag replayed on an empty stack adds exactly one "Unmatched end tag"
\* diagnostic that spans the tag, leaves the stack empty and leaves the pass
\* scanning; `{% endif %}` alone yields exactly that one diagnostic.
C4_UnmatchedEndTag ==
    /\ (lastStep.type = "endTag" /\ lastStep.stackBefore = <<>>) =>
        /\ stack = <<>>
        /\ pc = "scan"
        /\ Len(markers) = Len(lastStep.markersBefore) + 1
        /\ SubSeq(markers, 1, Len(markers) - 1) = lastStep.markersBefore
        /\ LET d == markers[Len(markers)]
           IN  /\ d.severity = "Error"
               /\ d.message = "Unmatched end tag 'end" \o lastStep.match.tag \o "'"
               /\ d.startLineNumber = lastStep.lineNumber
               /\ d.endLineNumber = lastStep.lineNumber
               /\ MarkedText(d) = "{% end" \o lastStep.match.tag \o " %}"
    /\ (pc = "done" /\ text = "{% endif %}") =>
        published = <<Marker("Unmatched end tag 'endif'", 1, 1, 1, 12)>>

C4_Witness ==
    /\ lastStep.type = "endTag"
    /\ lastStep.stackBefore = <<>>
    /\ lastStep.markersBefore # <<>>
    /\ work # <<>>

\* C5: a closing tag end<Y> replayed on a non-empty stack pops exactly the top frame,
\* whatever its tag X, and adds the diagnostic "Expected 'end<X>' but found 'end<Y>'"
\* exactly when X differs from Y; `{% if x %}{% endfor %}` yields that one diagnostic
\* and no unclosed diagnostic.
C5_EndTagPopsTop ==
    /\ (lastStep.type = "endTag" /\ lastStep.stackBefore # <<>>) =>
        LET before == lastStep.stackBefore
            X == before[Len(before)].tag
            Y == lastStep.match.tag
        IN  /\ stack = SubSeq(before, 1, Len(before) - 1)
            /\ X = Y => markers = lastStep.markersBefore
            /\ X # Y =>
                /\ Len(markers) = Len(lastStep.markersBefore) + 1
                /\ SubSeq(markers, 1, Len(markers) - 1) = lastStep.markersBefore
                /\ markers[Len(markers)].message =
                       "Expected 'end" \o X \o "' but found 'end" \o Y \o "'"
                /\ markers[Len(markers)].startLineNumber = lastStep.lineNumber
                /\ MarkedText(markers[Len(markers)]) = "{% end" \o Y \o " %}"
    /\ (text = "{% if x %}{% endfor %}" /\ pc \in {"drain", "done"}) => stack = <<>>
    /\ (text = "{% if x %}{% endfor %}" /\ pc = "done") =>
        published = <<Marker("Expected 'endif' but found 'endfor'", 1, 11, 1, 23)>>

C5_Witness ==
    /\ lastStep.type = "endTag"
    /\ Len(lastStep.stackBefore) >= 2
    /\ lastStep.stackBefore[Len(lastStep.stackBefore)].tag # lastStep.match.tag
    /\ lastStep.stackBefore[Len(lastStep.stackBefore)].tag # "output"

-----------------------------------------------------------------------------
(* Type descriptors (Zod schemas).  A descriptor is a record whose field   *)
(* type names its class; `instanceof ZodArray` is type = "array".          *)

ZString == [type |-> "string"]

ZNumber == [type |-> "number"]

ZArray(element) == [type |-> "array", element |-> element]

\* shape: a function from the field names to their descriptors
ZObject(shape) == [type |-> "object", shape |-> shape]

ZOptional(innerType) == [type |-> "optional", innerType |-> innerType]

ZNullable(innerType) == [type |-> "nullable", innerType |-> innerType]

ZDefault(innerType) == [type |-> "default", innerType |-> innerType]

ZBoolean == [type |-> "boolean"]

ZDate == [type |-> "date"]

\* z.literal(v): values holds v with its typeof
ZLiteral(v) == [type |-> "literal", values |-> <<v>>]

\* z.enum([...]): entries holds Object.values(entries) in order
ZEnum(entries) == [type |-> "enum", entries |-> entries]

ZUnion(options) == [type |-> "union", options |-> options]

\* a descriptor of a class getTypeString has no branch for (z.any())
ZAny == [type |-> "any"]

\* the values of literals: a JavaScript value with its typeof
StringValue(v) == [typeof |-> "string", string |-> v]

NumberValue(v) == [typeof |-> "number", number |-> v]

BooleanValue(v) == [typeof |-> "boolean", boolean |-> v]

\* the null that navigateSchema returns for a path that does not resolve
Null == [type |-> "null"]

WrapperTypes == {"optional", "nullable", "default"}

\* unwrapSchema that knows only ZodOptional and ZodNullable
unwrapSchema_NoDefault(schema) ==
    LET RECURSIVE strip(_)
        strip(x) == IF x.type \in {"optional", "nullable"} THEN strip(x.innerType) ELSE x
    IN  strip(schema)

RECURSIVE unwrapSchema(_)
unwrapSchema(schema) ==
    IF schema.type \in WrapperTypes THEN unwrapSchema(schema.innerType) ELSE schema

RECURSIVE AllDigits(_, _)
AllDigits(s, i) == i >= Len(s) \/ (At(s, i) \in Digits /\ AllDigits(s, i + 1))

\* /^\d+$/.test(segment)
IsIndex(segment) == Len(segment) > 0 /\ AllDigits(segment, 0)

\* the loop body of navigateSchema without the unwrapping of its first line
navigateStep_NoUnwrap(currentSchema, segment) ==
    LET current == IF currentSchema.type = "array"
                   THEN unwrapSchema(currentSchema.element)
                   ELSE currentSchema
    IN  IF IsIndex(segment) THEN current
        ELSE IF current.type = "object"
             THEN (IF segment \in DOMAIN current.shape
                   THEN current.shape[segment]
                   ELSE Null)
        ELSE Null

\* the loop body of navigateSchema without the replacement of an array by its element
navigateStep_KeepArray(currentSchema, segment) ==
    LET current == unwrapSchema(currentSchema)
    IN  IF IsIndex(segment) THEN current
        ELSE IF current.type = "object"
             THEN (IF segment \in DOMAIN current.shape
                   THEN current.shape[segment]
                   ELSE Null)
        ELSE Null

\* the loop body of navigateSchema: the descriptor after one segment, or Null for
\* `return null`
navigateStep(currentSchema, segment) ==
    LET unwrapped == unwrapSchema(currentSchema)
        current == IF unwrapped.type = "array"
                   THEN unwrapSchema(unwrapped.element)
                   ELSE unwrapped
    IN  IF IsIndex(segment) THEN current
        ELSE IF current.type = "object"
             THEN (IF segment \in DOMAIN current.shape
                   THEN current.shape[segment]
                   ELSE Null)
        ELSE Null

RECURSIVE navigateLoop(_, _)
\* for (const segment of path) { ... } followed by return unwrapSchema(currentSchema)
navigateLoop(currentSchema, path) ==
    IF path = <<>> THEN unwrapSchema(currentSchema)
    ELSE LET next == navigateStep(currentSchema, Head(path))
         IN  IF next = Null THEN Null ELSE navigateLoop(next, Tail(path))

navigateSchema(schema, path) == navigateLoop(unwrapSchema(schema), path)

-----------------------------------------------------------------------------
(* The descriptors and paths the resolver is run on: every descriptor      *)
(* built with at most MaxDepth constructors around a leaf, every path of   *)
(* at most MaxPath segments.                                               *)

Leaves == {ZString, ZNumber}

\* user: z.object({ name: z.string(), tags: <tags> })
UserObject(tags) == ZObject([f \in {"name", "tags"} |-> IF f = "name" THEN ZString ELSE tags])

\* z.object({ name: <name> })
NameObject(name) == ZObject([f \in {"name"} |-> name])

Around(S) ==
    {ZOptional(x) : x \in S} \cup {ZNullable(x) : x \in S} \cup {ZDefault(x) : x \in S}
    \cup {ZArray(x) : x \in S} \cup {UserObject(x) : x \in S} \cup {NameObject(x) : x \in S}

RECURSIVE SchemasOfDepth(_)
SchemasOfDepth(d) == IF d = 0 THEN Leaves ELSE Around(SchemasOfDepth(d - 1))

Schemas == UNION {SchemasOfDepth(d) : d \in 0..MaxDepth}

Segments == {"name", "tags", "missing", "0"}

Paths == UNION {[1..n -> Segments] : n \in 0..MaxPath}

\* the schema of the example: Object{ name: String, tags: Array<String> }
UserSchema == UserObject(ZArray(ZString))

-----------------------------------------------------------------------------
(* The resolver on one descriptor and one path (specification ResolveSpec):*)
(* the whole path at once, then its first segment alone, then the other    *)
(* segments against what the first gave.                                   *)

NotYet == [type |-> "none"]

ResolveInit ==
    /\ rSchema \in Schemas
    /\ rPath \in Paths
    /\ rWhole = NotYet
    /\ rHead = NotYet
    /\ rRest = NotYet
    /\ rpc = "start"
    /\ rType = ""
    /\ rInfo = [found |-> FALSE]
    /\ ScanIdle
    /\ EditorIdle
    /\ RequestIdle

\* navigateSchema(schema, path)
ResolveWhole ==
    /\ rpc = "start"
    /\ rWhole' = navigateSchema(rSchema, rPath)
    /\ rpc' = "whole"
    /\ UNCHANGED <<rSchema, rPath, rHead, rRest, rType, rInfo>>
    /\ UNCHANGED <<scanVars, editorVars, requestVars>>

\* navigateSchema(schema, [a]) for the first segment a of the path
ResolveHead ==
    /\ rpc = "whole"
    /\ rPath # <<>>
    /\ rHead' = navigateSchema(rSchema, <<Head(rPath)>>)
    /\ rpc' = "head"
    /\ UNCHANGED <<rSchema, rPath, rWhole, rRest, rType, rInfo>>
    /\ UNCHANGED <<scanVars, editorVars, requestVars>>

\* navigateSchema(result, rest) against the result of the first segment, when it resolved
ResolveRest ==
    /\ rpc = "head"
    /\ rHead # Null
    /\ rRest' = navigateSchema(rHead, Tail(rPath))
    /\ rpc' = "rest"
    /\ UNCHANGED <<rSchema, rPath, rWhole, rHead, rType, rInfo>>
    /\ UNCHANGED <<scanVars, editorVars, requestVars>>

ResolveNext ==
    \/ ResolveWhole
    \/ ResolveHead
    \/ ResolveRest

ResolveSpec == ResolveInit /\ [][ResolveNext]_vars

-----------------------------------------------------------------------------
(* Properties of the resolver, checked under ResolveSpec.  Bare and        *)
(* StripWrappers say what "unwrapped" means without using unwrapSchema.    *)

RECURSIVE Bare(_)
\* the descriptor under the wrappers at the top of d
Bare(d) ==
    IF d.type = "optional" \/ d.type = "nullable" \/ d.type = "default"
    THEN Bare(d.innerType)
    ELSE d

RECURSIVE StripWrappers(_)
\* d with every wrapper removed, at the top and at every field and element
StripWrappers(d) ==
    LET b == Bare(d)
    IN  CASE b.type = "array"  -> ZArray(StripWrappers(b.element))
          [] b.type = "object" -> ZObject([f \in DOMAIN b.shape |-> StripWrappers(b.shape[f])])
          [] OTHER             -> b

\* what a segment is applied to: the bare descriptor, or the bare element of an array
Traversed(d) == IF Bare(d).type = "array" THEN Bare(Bare(d).element) ELSE Bare(d)

\* C8: when resolving the first segment a of a path succeeds, resolving the whole
\* path [a, b] gives the same result (descriptor or not-resolvable) as resolving the
\* rest [b] against the result of [a]; numeric segments and array-typed intermediate
\* results included.
C8_Composition == rpc = "rest" => rRest = rWhole

C8_Witness ==
    /\ rpc = "rest"
    /\ Len(rPath) = 2
    /\ rHead.type = "array"
    /\ IsIndex(rPath[2])
    /\ rWhole # Null

\* C9: resolving a path through wrappers (at the root, at a field, at an array
\* element) gives the result of resolving it against the structure without them; a
\* chain of wrappers around an Object resolves exactly as the Object; and the
\* descriptor returned is never a wrapper.
C9_UnwrappingLaws ==
    rpc # "start" =>
        /\ rWhole.type \notin {"optional", "nullable", "default"}
        /\ StripWrappers(rWhole) = navigateSchema(StripWrappers(rSchema), rPath)
        /\ Bare(rSchema).type = "object" => rWhole = navigateSchema(Bare(rSchema), rPath)

C9_Witness ==
    /\ rpc # "start"
    /\ rSchema.type = "default"
    /\ rSchema.innerType.type = "nullable"
    /\ Bare(rSchema).type = "object"
    /\ rPath = <<"name">>
    /\ rWhole = ZString

\* C10: a non-numeric segment descends into the named field when the traversed
\* descriptor is an Object that has the field, and otherwise the whole path is not
\* resolvable; a numeric segment on an Array yields the element type.  For
\* user: Object{name: String, tags: Array<String>}: name gives String, tags.0 gives
\* String, missing is not resolvable.
C10_FieldAccess ==
    /\ rpc \in {"head", "rest"} =>
        LET segment == Head(rPath)
            current == Traversed(rSchema)
        IN  /\ (~IsIndex(segment) /\ current.type = "object"
                    /\ segment \in DOMAIN current.shape)
                   => rHead = Bare(current.shape[segment])
            /\ (~IsIndex(segment) /\ ~(current.type = "object"
                    /\ segment \in DOMAIN current.shape))
                   => (rHead = Null /\ rWhole = Null)
            /\ (IsIndex(segment) /\ Bare(rSchema).type = "array")
                   => rHead = Bare(Bare(rSchema).element)
    /\ (rpc # "start" /\ rSchema = UserSchema) =>
        /\ rPath = <<"name">> => rWhole = ZString
        /\ rPath = <<"tags", "0">> => rWhole = ZString
        /\ rPath = <<"missing">> => rWhole = Null

C10_Witness ==
    /\ rpc = "rest"
    /\ rSchema = UserSchema
    /\ rPath = <<"tags", "0">>
    /\ rWhole = ZString

-----------------------------------------------------------------------------
(* The editor (specification Spec): text models that change, calls of      *)
(* setModelLiquidValidation, the change listener each call registers, the  *)
(* host's timeouts, and dispose.  Time is counted in ticks; a timeout set  *)
(* with a delay of d ticks can fire once d ticks have passed, and may fire *)
(* later than that.                                                        *)

\* the texts a model is edited to
EditTexts == {"", "{% if user.name %}"}

\* a schema set with the one variable user
UserSchemas == [v \in {"user"} |-> UserSchema]

\* the schema set of the README's completion example: product
ProductSchemas ==
    [v \in {"product"} |->
        ZObject([f \in {"name", "price", "tags"} |->
            CASE f = "name" -> ZString [] f = "price" -> ZNumber
              [] f = "tags" -> ZArray(ZString)])]

\* the markers validateLiquidSyntax publishes for each text a model can have
passOver == [t \in EditTexts |-> validateLiquidSyntax(t)]

SchemaSets == {UserSchemas, ProductSchemas}

\* a clearTimeout that cancels every pending timeout of the window
clearTimeout_All(T, id) == {}

\* window.clearTimeout(id)
clearTimeout(T, id) == {t \in T : t.id # id}

\* the handle window.setTimeout returns: a number no pending timeout has and no
\* closure still holds (handles are never reused; only their identity matters)
FreshTimerId(A, T) ==
    LET used == {t.id : t \in T} \cup {A[a].validationTimeout : a \in AttIds}
        ids == 1..(Cardinality(used) + 1)
    IN  CHOOSE i \in ids : i \notin used /\ \A j \in ids : j \notin used => i <= j

\* the change listener without its clearTimeout
onDidChangeContent_NoClear(a, es) ==
    LET id == FreshTimerId(es.att, es.timers)
    IN  [att |-> [es.att EXCEPT ![a].validationTimeout = id],
         timers |-> es.timers \cup {[id |-> id, att |-> a,
                                    remaining |-> es.att[a].debounceMs]}]

\* the listener of model.onDidChangeContent of attachment a, on the attachments and
\* timeouts es: cancel the pending timeout, set a new one of debounceMs
onDidChangeContent(a, es) ==
    LET cleared == IF es.att[a].validationTimeout # Undefined
                   THEN clearTimeout(es.timers, es.att[a].validationTimeout)
                   ELSE es.timers
        id == FreshTimerId(es.att, cleared)
    IN  [att |-> [es.att EXCEPT ![a].validationTimeout = id],
         timers |-> cleared \cup {[id |-> id, att |-> a,
                                   remaining |-> es.att[a].debounceMs]}]

RECURSIVE notifyListeners(_, _)
\* the host calls the listeners of a model in the order they were registered
notifyListeners(ids, es) ==
    IF ids = {} THEN es
    ELSE LET a == CHOOSE i \in ids : \A j \in ids : i <= j
         IN  notifyListeners(ids \ {a}, onDidChangeContent(a, es))

\* the attachments listening to the changes of a model
Listeners(mdl) == {a \in AttIds : att[a].listening /\ att[a].model = mdl}

\* the attachments disposed on a model
DisposedOn(mdl) == {a \in AttIds : att[a].state = "disposed" /\ att[a].model = mdl}

EditorInit ==
    /\ value \in [Models -> EditTexts]
    /\ schemas = [mdl \in Models |-> NoSchemas]
    /\ modelMarkers = [mdl \in Models |-> <<>>]
    /\ att = [a \in AttIds |-> FreeAttachment]
    /\ timers = {}
    /\ hist = [a \in AttIds |-> NoHistory]
    /\ ScanIdle
    /\ ResolveIdle
    /\ RequestIdle

\* setModelLiquidValidation that keeps the schemas a model already has
SetModelLiquidValidation_KeepFirst(mdl, set, debounceMs) ==
    /\ \E a \in AttIds :
        /\ att[a].state = "free"
        /\ \A b \in AttIds : b < a => att[b].state # "free"
        /\ att' = [att EXCEPT ![a] =
               [state |-> "live", model |-> mdl, schemas |-> set,
                debounceMs |-> debounceMs,
                validationTimeout |-> Undefined, listening |-> TRUE]]
    /\ schemas' = IF schemas[mdl].defined THEN schemas
                  ELSE [schemas EXCEPT ![mdl] = [defined |-> TRUE, set |-> set]]
    /\ modelMarkers' = [modelMarkers EXCEPT ![mdl] = passOver[value[mdl]]]
    /\ hist' = [b \in AttIds |->
           IF b \in DisposedOn(mdl) THEN [hist[b] EXCEPT !.republished = TRUE]
           ELSE hist[b]]
    /\ UNCHANGED <<value, timers>>
    /\ UNCHANGED <<scanVars, resolveVars, requestVars>>

\* setModelLiquidValidation without the validation pass of its third line
SetModelLiquidValidation_NoFirstPass(mdl, set, debounceMs) ==
    /\ \E a \in AttIds :
        /\ att[a].state = "free"
        /\ \A b \in AttIds : b < a => att[b].state # "free"
        /\ att' = [att EXCEPT ![a] =
               [state |-> "live", model |-> mdl, schemas |-> set,
                debounceMs |-> debounceMs,
                validationTimeout |-> Undefined, listening |-> TRUE]]
    /\ schemas' = [schemas EXCEPT ![mdl] = [defined |-> TRUE, set |-> set]]
    /\ UNCHANGED <<value, timers, modelMarkers, hist>>
    /\ UNCHANGED <<scanVars, resolveVars, requestVars>>

\* setModelLiquidValidation(monacoInstance, model, schemas, { debounceMs })
SetModelLiquidValidation(mdl, set, debounceMs) ==
    /\ \E a \in AttIds :
        /\ att[a].state = "free"
        /\ \A b \in AttIds : b < a => att[b].state # "free"
        /\ att' = [att EXCEPT ![a] =
               [state |-> "live", model |-> mdl, schemas |-> set,
                debounceMs |-> debounceMs,
                validationTimeout |-> Undefined, listening |-> TRUE]]
    /\ schemas' = [schemas EXCEPT ![mdl] = [defined |-> TRUE, set |-> set]]
    /\ modelMarkers' = [modelMarkers EXCEPT ![mdl] = passOver[value[mdl]]]
    /\ hist' = [b \in AttIds |->
           IF b \in DisposedOn(mdl) THEN [hist[b] EXCEPT !.republished = TRUE]
           ELSE hist[b]]
    /\ UNCHANGED <<value, timers>>
    /\ UNCHANGED <<scanVars, resolveVars, requestVars>>

\* an edit: the model's text becomes t and the host notifies the model's listeners
ChangeContent(mdl, t) ==
    /\ t # value[mdl]
    /\ value' = [value EXCEPT ![mdl] = t]
    /\ LET es == notifyListeners(Listeners(mdl), [att |-> att, timers |-> timers])
       IN  /\ att' = es.att
           /\ timers' = es.timers
    /\ hist' = [a \in AttIds |->
           IF a \in Listeners(mdl)
           THEN [hist[a] EXCEPT !.notified = TRUE,
                                !.rapid = hist[a].notified
                                          /\ hist[a].since < att[a].debounceMs,
                                !.since = 0,
                                !.passes = 0,
                                !.early = FALSE,
                                !.passMarkers = <<>>]
           ELSE IF a \in DisposedOn(mdl)
                THEN [hist[a] EXCEPT !.notified = TRUE]
           ELSE hist[a]]
    /\ UNCHANGED <<schemas, modelMarkers>>
    /\ UNCHANGED <<scanVars, resolveVars, requestVars>>

\* one tick of time passes while a timeout is running
Tick ==
    /\ \E t \in timers : t.remaining > 0
    /\ timers' = {[t EXCEPT !.remaining = IF @ > 0 THEN @ - 1 ELSE 0] : t \in timers}
    /\ hist' = [a \in AttIds |->
           IF hist[a].notified /\ hist[a].since < att[a].debounceMs
           THEN [hist[a] EXCEPT !.since = @ + 1]
           ELSE hist[a]]
    /\ UNCHANGED <<value, schemas, modelMarkers, att>>
    /\ UNCHANGED <<scanVars, resolveVars, requestVars>>

\* a timeout callback that only resets validationTimeout and validates nothing
TimerFires_NoPass(t) ==
    /\ t \in timers
    /\ t.remaining = 0
    /\ timers' = timers \ {t}
    /\ att' = [att EXCEPT ![t.att].validationTimeout = Undefined]
    /\ UNCHANGED <<value, schemas, modelMarkers, hist>>
    /\ UNCHANGED <<scanVars, resolveVars, requestVars>>

\* the callback of a timeout whose delay has passed:
\* validateLiquidSyntax(monacoInstance, model); validationTimeout = undefined
TimerFires(t) ==
    /\ t \in timers
    /\ t.remaining = 0
    /\ timers' = timers \ {t}
    /\ att' = [att EXCEPT ![t.att].validationTimeout = Undefined]
    /\ LET mdl == att[t.att].model
           found == passOver[value[mdl]]
       IN  /\ modelMarkers' = [modelMarkers EXCEPT ![mdl] = found]
           /\ hist' = [a \in AttIds |->
                  IF a = t.att
                  THEN [hist[a] EXCEPT
                           !.passes = IF @ < 2 THEN @ + 1 ELSE @,
                           !.early = @ \/ hist[a].since < att[a].debounceMs,
                           !.passMarkers = found,
                           !.zombie = @ \/ att[a].state = "disposed"]
                  ELSE IF a \in DisposedOn(mdl)
                       THEN [hist[a] EXCEPT !.republished = TRUE]
                  ELSE hist[a]]
    /\ UNCHANGED <<value, schemas>>
    /\ UNCHANGED <<scanVars, resolveVars, requestVars>>

\* dispose() that leaves the pending timeout running
Dispose_NoClear(a) ==
    /\ att[a].state # "free"
    /\ att' = [att EXCEPT ![a].listening = FALSE, ![a].state = "disposed"]
    /\ modelMarkers' = [modelMarkers EXCEPT ![att[a].model] = <<>>]
    /\ hist' = [b \in AttIds |->
           IF b = a THEN NoHistory
           ELSE IF b \in DisposedOn(att[a].model)
                THEN [hist[b] EXCEPT !.republished = FALSE]
           ELSE hist[b]]
    /\ UNCHANGED <<value, schemas, timers>>
    /\ UNCHANGED <<scanVars, resolveVars, requestVars>>

\* dispose() of the disposable a call returned: cancel the pending timeout, detach
\* the listener, clear the markers
Dispose(a) ==
    /\ att[a].state # "free"
    /\ timers' = IF att[a].validationTimeout # Undefined
                 THEN clearTimeout(timers, att[a].validationTimeout)
                 ELSE timers
    /\ att' = [att EXCEPT ![a].listening = FALSE, ![a].state = "disposed"]
    /\ modelMarkers' = [modelMarkers EXCEPT ![att[a].model] = <<>>]
    /\ hist' = [b \in AttIds |->
           IF b = a THEN NoHistory
           ELSE IF b \in DisposedOn(att[a].model)
                THEN [hist[b] EXCEPT !.republished = FALSE]
           ELSE hist[b]]
    /\ UNCHANGED <<value, schemas>>
    /\ UNCHANGED <<scanVars, resolveVars, requestVars>>

Next ==
    \/ \E mdl \in Models, set \in SchemaSets, debounceMs \in 1..MaxDebounce :
           SetModelLiquidValidation(mdl, set, debounceMs)
    \/ \E mdl \in Models, t \in EditTexts : ChangeContent(mdl, t)
    \/ Tick
    \/ \E t \in timers : TimerFires(t)
    \/ \E a \in AttIds : Dispose(a)

Spec == EditorInit /\ [][Next]_vars

-----------------------------------------------------------------------------
(* Claims about the debounced re-validation and dispose.                   *)

\* the timeouts of attachment a that are pending
PendingOf(a) == {t \in timers : t.att = a}

\* C6: for an attachment that is not disposed, once a change was notified exactly one
\* validation pass answers the notifications so far: either it is still pending as
\* the one timeout of the attachment, or it ran once; it never runs less than
\* debounceMs after the last notification (so never between two notifications of a
\* burst), and the markers it published are those of the text at the last notification.
C6_DebouncedPass ==
    \A a \in AttIds :
        att[a].state = "live" /\ hist[a].notified =>
            /\ hist[a].passes + Cardinality(PendingOf(a)) = 1
            /\ ~hist[a].early
            /\ hist[a].passes = 1 =>
                   hist[a].passMarkers = passOver[value[att[a].model]]

\* a burst of at least two notifications less than debounceMs apart was answered by
\* its one pass, which found the unclosed tag of the last text
C6_Witness ==
    \E a \in AttIds :
        /\ att[a].state = "live"
        /\ hist[a].rapid
        /\ hist[a].passes = 1
        /\ PendingOf(a) = {}
        /\ hist[a].passMarkers # <<>>

\* C7 as stated: after dispose() of an attachment, in every state, none of its timeouts
\* is pending, none of its passes has run, and the markers of its model are empty.
C7_DisposedStaysClean ==
    \A a \in AttIds :
        att[a].state = "disposed" =>
            /\ PendingOf(a) = {}
            /\ ~hist[a].zombie
            /\ modelMarkers[att[a].model] = <<>>

\* C7 amended: after dispose() of an attachment none of its timeouts is pending and
\* none of its passes runs, whatever changes are notified later; the markers of its
\* model are empty until another call of setModelLiquidValidation on the model, or a
\* pass of another attachment of the model, publishes again.
C7_DisposedUntilRepublished ==
    \A a \in AttIds :
        att[a].state = "disposed" =>
            /\ PendingOf(a) = {}
            /\ ~hist[a].zombie
            /\ ~hist[a].republished => modelMarkers[att[a].model] = <<>>

\* an attachment was disposed while its timeout was pending, its model changed again
\* afterwards to a text with an unclosed tag, and no markers are published
C7_Witness ==
    \E a \in AttIds :
        /\ att[a].state = "disposed"
        /\ att[a].validationTimeout # Undefined
        /\ hist[a].notified
        /\ ~hist[a].republished
        /\ passOver[value[att[a].model]] # <<>>
        /\ modelMarkers[att[a].model] = <<>>

-----------------------------------------------------------------------------
(* Pass after pass on one document (specification RepassSpec): when a pass *)
(* has published, the document has some text again and validateLiquidSyntax *)
(* is called once more.  What the pass before left in the model's          *)
(* variables stays there until the new pass assigns them.                  *)

\* the texts the document has from one pass to the next
RepassTexts ==
    {"", "{{", "{% if x %}", "{{ y }}\n{% endif %}", "{% if x %}{% endif %}"}

RepassInit ==
    /\ text \in RepassTexts
    /\ lines = <<>>
    /\ lineIdx = 0
    /\ work = <<>>
    /\ stack = <<>>
    /\ markers = <<>>
    /\ pc = "start"
    /\ published = <<>>
    /\ lastStep = NoStep
    /\ earlier = {}
    /\ ResolveIdle
    /\ EditorIdle
    /\ RequestIdle

\* the next call of validateLiquidSyntax, on the text the model has then
NextPass ==
    /\ pc = "done"
    /\ text' \in RepassTexts
    /\ pc' = "start"
    /\ UNCHANGED <<lines, lineIdx, work, stack, markers, published, lastStep, earlier>>
    /\ UNCHANGED <<resolveVars, editorVars, requestVars>>

RepassNext ==
    \/ ScanNext
    \/ NextPass

RepassSpec == RepassInit /\ [][RepassNext]_vars

\* C11: every pass starts with an empty stack and no markers, what it publishes is
\* what validateLiquidSyntax computes from the text of that pass alone, and all
\* passes over one text have published the same list of markers.
C11_FreshEveryPass ==
    /\ pc = "scan" /\ lineIdx = 0 /\ lastStep = NoStep => stack = <<>> /\ markers = <<>>
    /\ pc = "done" => published = validateLiquidSyntax(text)
    /\ \A e1, e2 \in earlier : e1.text = e2.text => e1.markers = e2.markers

\* a pass has published no markers for a text without faults after passes over two
\* other texts, one of which had published markers
C11_Witness ==
    /\ pc = "done"
    /\ text = "{% if x %}{% endif %}"
    /\ published = <<>>
    /\ Cardinality(earlier) >= 3
    /\ \E e \in earlier : e.text # text /\ e.markers # <<>>

-----------------------------------------------------------------------------
(* Claims about the documents of one editor.                               *)

\* the timeouts pending for the attachments of a model
PendingOn(mdl) == {t \in timers : att[t.att].model = mdl}

\* a step is an operation on model mdl: a call of setModelLiquidValidation, a change
\* notification, a timeout callback with its validation pass, or a dispose
OperationOn(mdl) ==
    \/ \E set \in SchemaSets, debounceMs \in 1..MaxDebounce :
           SetModelLiquidValidation(mdl, set, debounceMs)
    \/ \E t \in EditTexts : ChangeContent(mdl, t)
    \/ \E t \in timers : att[t.att].model = mdl /\ TimerFires(t)
    \/ \E a \in AttIds : att[a].model = mdl /\ Dispose(a)

\* C12: an operation on one model leaves the schema set, the pending timeouts and the
\* markers of every other model as they were.
C12_OtherDocumentsUntouched ==
    [][\A mdl \in Models :
          OperationOn(mdl) =>
              \A o \in Models \ {mdl} :
                  /\ schemas'[o] = schemas[o]
                  /\ modelMarkers'[o] = modelMarkers[o]
                  /\ {t \in timers' : att'[t.att].model = o} = PendingOn(o)]_vars

\* a change was just notified on one model while another model, with another schema
\* set and with markers, had a timeout pending whose delay had already passed
C12_Witness ==
    \E a, b \in AttIds :
        /\ att[a].state = "live" /\ att[b].state = "live"
        /\ att[a].model # att[b].model
        /\ hist[a].notified /\ hist[a].since = 0 /\ PendingOf(a) # {}
        /\ \E t \in PendingOf(b) : t.remaining = 0
        /\ modelMarkers[att[b].model] # <<>>
        /\ schemas[att[a].model] # schemas[att[b].model]

-----------------------------------------------------------------------------
(* Hover and completion requests: the variable path before the cursor, its *)
(* segments, and what provideHover and provideCompletionItems answer from  *)
(* model.schemas.  A request reads one line of the model and a column      *)
(* (1-based, as monaco.Position.column).                                   *)

\* [a-zA-Z_]
IdStartChars == LowerCase \cup UpperCase \cup {"_"}

\* [\w\-.\[\]]
PathChars == WordChars \cup {"-", ".", "[", "]"}

\* variablePathRegex matches at index i: /[a-zA-Z_][\w\-.\[\]]*$/
variablePathMatch(s, i) ==
    At(s, i) \in IdStartChars /\ SkipWhile(s, i + 1, PathChars) = Len(s)

\* a search that takes the match that starts last
execVariablePath_Rightmost(s, i) ==
    LET RECURSIVE back(_)
        back(k) == IF k < i THEN -1
                   ELSE IF variablePathMatch(s, k) THEN k ELSE back(k - 1)
    IN  back(Len(s) - 1)

RECURSIVE execVariablePath(_, _)
\* variablePathRegex.exec(s): the index of the first match from i on, -1 for null
execVariablePath(s, i) ==
    IF i >= Len(s) THEN -1
    ELSE IF variablePathMatch(s, i) THEN i
    ELSE execVariablePath(s, i + 1)

\* the string | null of getVariablePathAtPosition
NoPath == [found |-> FALSE]

getVariablePathAtPosition(lineContent, column) ==
    LET textUntilPosition ==
            Substring(lineContent, 0,
                      IF column - 1 > Len(lineContent) THEN Len(lineContent) ELSE column - 1)
        index == execVariablePath(textUntilPosition, 0)
    IN  IF index # -1
        THEN [found |-> TRUE, path |-> Substring(textUntilPosition, index,
                                                  Len(textUntilPosition))]
        ELSE NoPath

RECURSIVE splitSegments(_, _, _)
\* variablePath.split(/\.|\[|\]/).filter((segment) => segment !== '')
splitSegments(s, start, i) ==
    LET piece == Substring(s, start, i)
        kept == IF piece = "" THEN <<>> ELSE <<piece>>
    IN  IF i >= Len(s) THEN kept
        ELSE IF At(s, i) \in {".", "[", "]"}
             THEN kept \o splitSegments(s, i + 1, i + 1)
        ELSE splitSegments(s, start, i + 1)

pathSegmentsOf(variablePath) == splitSegments(variablePath, 0, 0)

\* pathSegments[0]: the key that an undefined first element is looked up as
variableNameOf(pathSegments) ==
    IF pathSegments = <<>> THEN "undefined" ELSE pathSegments[1]

\* pathSegments.slice(1)
pathWithoutVariableName(pathSegments) ==
    IF pathSegments = <<>> THEN <<>> ELSE Tail(pathSegments)

\* Object.prototype.hasOwnProperty.call(obj, key): "TypeError" when obj is undefined
hasOwnProperty(obj, key) ==
    IF ~obj.defined THEN "TypeError"
    ELSE IF key \in DOMAIN obj.set THEN "true" ELSE "false"

RECURSIVE join(_, _)
\* Array.prototype.join
join(parts, separator) ==
    IF parts = <<>> THEN ""
    ELSE IF Len(parts) = 1 THEN parts[1]
    ELSE parts[1] \o separator \o join(Tail(parts), separator)

\* the template `"${v}"`
quote(v) == "\"" \o v \o "\""

RECURSIVE digitsOf(_)
\* the decimal digits of a natural number
digitsOf(n) ==
    LET d == SubSeq("0123456789", (n % 10) + 1, (n % 10) + 1)
    IN  IF n < 10 THEN d ELSE digitsOf(n \div 10) \o d

\* String(value) for a number or a boolean
StringOf(v) ==
    IF v.typeof = "boolean" THEN (IF v.boolean THEN "true" ELSE "false")
    ELSE IF v.number < 0 THEN "-" \o digitsOf(0 - v.number)
    ELSE digitsOf(v.number)

RECURSIVE getTypeString_NoUnwrap(_)
\* getTypeString that inspects the descriptor as given (const unwrapped = schema)
getTypeString_NoUnwrap(schema) ==
    LET unwrapped == schema
    IN  CASE unwrapped.type = "array"  ->
                 "Array<" \o getTypeString_NoUnwrap(unwrapped.element) \o ">"
          [] unwrapped.type = "object" -> "Object"
          [] unwrapped.type = "string" -> "String"
          [] unwrapped.type = "number" -> "Number"
          [] unwrapped.type = "boolean" -> "Boolean"
          [] unwrapped.type = "date" -> "Date"
          [] unwrapped.type = "literal" ->
                 (LET v == unwrapped.values[1]
                  IN  IF v.typeof = "string" THEN quote(v.string) ELSE StringOf(v))
          [] unwrapped.type = "enum" ->
                 join([i \in DOMAIN unwrapped.entries |-> quote(unwrapped.entries[i])],
                      " | ")
          [] unwrapped.type = "union" ->
                 join([i \in DOMAIN unwrapped.options |->
                          getTypeString_NoUnwrap(unwrapped.options[i])], " | ")
          [] OTHER -> "Unknown"

RECURSIVE getTypeString(_)
getTypeString(schema) ==
    LET unwrapped == unwrapSchema(schema)
    IN  CASE unwrapped.type = "array"  -> "Array<" \o getTypeString(unwrapped.element) \o ">"
          [] unwrapped.type = "object" -> "Object"
          [] unwrapped.type = "string" -> "String"
          [] unwrapped.type = "number" -> "Number"
          [] unwrapped.type = "boolean" -> "Boolean"
          [] unwrapped.type = "date" -> "Date"
          [] unwrapped.type = "literal" ->
                 (LET v == unwrapped.values[1]
                  IN  IF v.typeof = "string" THEN quote(v.string) ELSE StringOf(v))
          [] unwrapped.type = "enum" ->
                 join([i \in DOMAIN unwrapped.entries |-> quote(unwrapped.entries[i])],
                      " | ")
          [] unwrapped.type = "union" ->
                 join([i \in DOMAIN unwrapped.options |-> getTypeString(unwrapped.options[i])],
                      " | ")
          [] OTHER -> "Unknown"

\* the string | null of getTypeInfoFromSchema
NoTypeInfo == [found |-> FALSE]

getTypeInfoFromSchema(schema, path) ==
    LET navigated == navigateSchema(schema, path)
    IN  IF navigated = Null THEN NoTypeInfo
        ELSE [found |-> TRUE, text |-> getTypeString(navigated)]

\* the markdown of a type: **Type:** followed by the type string as inline code
MarkdownType(typeString) == [bold |-> "Type:", code |-> typeString]

\* what a provider returns or throws
HoverNull == [kind |-> "null"]

Thrown == [kind |-> "TypeError"]

\* provideHover without its first line (if (!model.schemas) return null)
provideHover_NoGuard(modelSchemas, lineContent, column) ==
    LET variablePath == getVariablePathAtPosition(lineContent, column)
        pathSegments == pathSegmentsOf(variablePath.path)
        variableName == variableNameOf(pathSegments)
        owned == hasOwnProperty(modelSchemas, variableName)
        typeInfo == getTypeInfoFromSchema(modelSchemas.set[variableName],
                                          pathWithoutVariableName(pathSegments))
    IN  IF ~variablePath.found THEN HoverNull
        ELSE IF owned = "TypeError" THEN Thrown
        ELSE IF owned = "true" /\ typeInfo.found
             THEN [kind |-> "hover", contents |-> MarkdownType(typeInfo.text)]
        ELSE HoverNull

\* provideHover(model, position) for the line of the position: the hover, null, or
\* the error thrown.  (The range of the hover is the word monaco finds at the position.)
provideHover(modelSchemas, lineContent, column) ==
    LET variablePath == getVariablePathAtPosition(lineContent, column)
        pathSegments == pathSegmentsOf(variablePath.path)
        variableName == variableNameOf(pathSegments)
        owned == hasOwnProperty(modelSchemas, variableName)
        typeInfo == getTypeInfoFromSchema(modelSchemas.set[variableName],
                                          pathWithoutVariableName(pathSegments))
    IN  IF ~modelSchemas.defined THEN HoverNull
        ELSE IF ~variablePath.found THEN HoverNull
        ELSE IF owned = "TypeError" THEN Thrown
        ELSE IF owned = "true" /\ typeInfo.found
             THEN [kind |-> "hover", contents |-> MarkdownType(typeInfo.text)]
        ELSE HoverNull

\* getCompletionKindForSchema
getCompletionKindForSchema(schema) ==
    LET unwrapped == unwrapSchema(schema)
    IN  CASE unwrapped.type = "array"  -> "Variable"
          [] unwrapped.type = "object" -> "Class"
          [] OTHER -> "Property"

\* a completion item of a variable or a keyword (its range is the word monaco finds
\* before the position)
Item(label, kind, sortText) ==
    [label |-> label, kind |-> kind, insertText |-> label, sortText |-> sortText]

\* the completion item getSuggestionsFromSchema pushes for a key of a shape
FieldItem(key, fieldSchema) ==
    [label |-> key, kind |-> getCompletionKindForSchema(fieldSchema), insertText |-> key,
     detail |-> getTypeString(fieldSchema),
     documentation |-> MarkdownType(getTypeString(fieldSchema)),
     sortText |-> "1" \o key]

\* getSuggestionsFromSchema that suggests the fields of an object only, not those of
\* the elements of an array
getSuggestionsFromSchema_NoElement(schema, path) ==
    LET navigated == navigateSchema(schema, path)
    IN  IF navigated = Null THEN {}
        ELSE IF unwrapSchema(navigated).type = "object"
             THEN {FieldItem(key, unwrapSchema(navigated).shape[key]) :
                   key \in DOMAIN unwrapSchema(navigated).shape}
        ELSE {}

\* getSuggestionsFromSchema: one item for each key of the shape.  The items are a set:
\* the order of the keys of an object is not part of a descriptor here.
getSuggestionsFromSchema(schema, path) ==
    LET navigated == navigateSchema(schema, path)
        unwrapped == unwrapSchema(navigated)
        currentSchema == IF unwrapped.type = "array"
                         THEN unwrapSchema(unwrapped.element)
                         ELSE unwrapped
    IN  IF navigated = Null THEN {}
        ELSE IF currentSchema.type = "object"
             THEN {FieldItem(key, currentSchema.shape[key]) :
                   key \in DOMAIN currentSchema.shape}
        ELSE {}

\* getSchemaSuggestions that falls back to the variables of the set when the path
\* names none of them
getSchemaSuggestions_Fallback(set, lineContent, column) ==
    LET variablePath == getVariablePathAtPosition(lineContent, column)
        pathSegments == pathSegmentsOf(variablePath.path)
        variableName == variableNameOf(pathSegments)
    IN  IF variablePath.found /\ variableName \in DOMAIN set
        THEN getSuggestionsFromSchema(set[variableName],
                                      pathWithoutVariableName(pathSegments))
        ELSE {Item(name, "Variable", "0" \o name) : name \in DOMAIN set}

\* getSchemaSuggestions(monacoInstance, model, position, schemas) for a schema set
getSchemaSuggestions(set, lineContent, column) ==
    LET variablePath == getVariablePathAtPosition(lineContent, column)
        pathSegments == pathSegmentsOf(variablePath.path)
        variableName == variableNameOf(pathSegments)
    IN  IF variablePath.found
        THEN IF variableName \in DOMAIN set
             THEN getSuggestionsFromSchema(set[variableName],
                                           pathWithoutVariableName(pathSegments))
             ELSE {}
        ELSE {Item(name, "Variable", "0" \o name) : name \in DOMAIN set}

\* the keywords of getKeywordSuggestions
keywords ==
    {"assign", "capture", "endcapture", "increment", "decrement", "if", "endif",
     "unless", "endunless", "elsif", "else", "for", "endfor", "break", "continue",
     "limit", "offset", "range", "reversed", "cols", "case", "endcase", "when", "cycle",
     "tablerow", "endtablerow", "include", "render", "with", "comment", "endcomment",
     "raw", "endraw", "true", "false", "nil", "and", "or", "not", "in", "contains",
     "startswith", "endswith", "abs", "append", "at_least", "at_most", "capitalize",
     "ceil", "compact", "concat", "date", "default", "divided_by", "downcase", "escape",
     "escape_once", "first", "floor", "join", "last", "lstrip", "map", "minus", "modulo",
     "newline_to_br", "plus", "prepend", "remove", "remove_first", "replace",
     "replace_first", "reverse", "round", "rstrip", "size", "slice", "sort",
     "sort_natural", "split", "strip", "strip_html", "strip_newlines", "times",
     "truncate", "truncatewords", "uniq", "upcase", "url_decode", "url_encode"}

\* getKeywordSuggestions
getKeywordSuggestions == {Item(keyword, "Keyword", "2" \o keyword) : keyword \in keywords}

\* provideCompletionItems(model, position): the two lists its result is spread from
provideCompletionItems(modelSchemas, lineContent, column) ==
    [kind |-> "items",
     keywordSuggestions |-> getKeywordSuggestions,
     schemaSuggestions |-> IF modelSchemas.defined
                           THEN getSchemaSuggestions(modelSchemas.set, lineContent, column)
                           ELSE {}]

-----------------------------------------------------------------------------
(* One request position (specification RequestSpec): a line, a column and  *)
(* the model's schemas; getVariablePathAtPosition, provideHover and        *)
(* provideCompletionItems are called on it in turn.                        *)

\* order: z.object({ cart: z.array(z.object({ name: z.string() })).optional() })
OrderSchemas ==
    [v \in {"order"} |->
        ZObject([f \in {"cart"} |-> ZOptional(ZArray(NameObject(ZString)))])]

RequestSets == {UserSchemas, ProductSchemas, OrderSchemas}

\* the characters of the short lines
LineChars == {"a", "_", "7", "-", ".", "[", " "}

ShortLines == {Join(cs) : cs \in UNION {[1..n -> LineChars] : n \in 0..MaxChars}}

\* lines of a template that name variables of the schema sets
TemplateLines ==
    {"{{ user.name }}", "{{ user.tags[0] }}", "{{ user.0.", "{{ user.missing.x",
     "{{ product.", "{{ product.pri", "{{ product.tags.", "{{ nobody.name }}",
     "{{ order.cart.", "{{ order.cart[0].", "{{ order.cart[0].name }}"}

RequestLines == ShortLines \cup TemplateLines

RequestInit ==
    /\ qSchemas \in {NoSchemas} \cup {[defined |-> TRUE, set |-> set] : set \in RequestSets}
    /\ qLine \in RequestLines
    /\ qColumn \in 1..(Len(qLine) + 1)
    /\ qPath = NotAsked
    /\ qHover = NotAsked
    /\ qItems = NotAsked
    /\ qpc = "start"
    /\ ScanIdle
    /\ ResolveIdle
    /\ EditorIdle

\* getVariablePathAtPosition(model, position)
GetVariablePath ==
    /\ qpc = "start"
    /\ qPath' = getVariablePathAtPosition(qLine, qColumn)
    /\ qpc' = "path"
    /\ UNCHANGED <<qSchemas, qLine, qColumn, qHover, qItems>>
    /\ UNCHANGED <<scanVars, resolveVars, editorVars>>

\* provideHover(model, position)
ProvideHover ==
    /\ qpc = "path"
    /\ qHover' = provideHover(qSchemas, qLine, qColumn)
    /\ qpc' = "hover"
    /\ UNCHANGED <<qSchemas, qLine, qColumn, qPath, qItems>>
    /\ UNCHANGED <<scanVars, resolveVars, editorVars>>

\* provideCompletionItems(model, position)
ProvideCompletionItems ==
    /\ qpc = "hover"
    /\ qItems' = provideCompletionItems(qSchemas, qLine, qColumn)
    /\ qpc' = "items"
    /\ UNCHANGED <<qSchemas, qLine, qColumn, qPath, qHover>>
    /\ UNCHANGED <<scanVars, resolveVars, editorVars>>

RequestNext ==
    \/ GetVariablePath
    \/ ProvideHover
    \/ ProvideCompletionItems

RequestSpec == RequestInit /\ [][RequestNext]_vars

-----------------------------------------------------------------------------
(* Claims about requests.                                                  *)

\* lineContent.substring(0, position.column - 1) of the request
TextBeforeCursor == Substring(qLine, 0, qColumn - 1)

\* the suffix of s from index k on is a variable path: a letter or underscore, then
\* only word characters, hyphens, dots and square brackets up to the end
IsPathSuffix(s, k) ==
    /\ At(s, k) \in IdStartChars
    /\ \A j \in (k + 1)..(Len(s) - 1) : At(s, j) \in PathChars

\* where the suffixes of s that are variable paths start
PathStarts(s) == {k \in 0..(Len(s) - 1) : IsPathSuffix(s, k)}

\* C16: getVariablePathAtPosition returns the longest suffix of the text before the
\* cursor that is a variable path, and nothing exactly when no suffix is one.
C16_LongestPathSuffix ==
    qpc # "start" =>
        LET s == TextBeforeCursor
        IN  /\ qPath.found <=> PathStarts(s) # {}
            /\ qPath.found =>
                   \E k \in PathStarts(s) :
                       /\ \A j \in PathStarts(s) : k <= j
                       /\ qPath.path = Substring(s, k, Len(s))

\* the cursor stands inside the line, several suffixes before it are variable paths,
\* and the one returned is not the whole text before the cursor
C16_Witness ==
    /\ qpc # "start"
    /\ qColumn <= Len(qLine)
    /\ Cardinality(PathStarts(TextBeforeCursor)) >= 2
    /\ qPath.found
    /\ Len(qPath.path) >= 2
    /\ Len(qPath.path) < Len(TextBeforeCursor)

\* the segments of the variable path of the request
RequestSegments == pathSegmentsOf(qPath.path)

\* the first segment of the request's path names a variable of the model's schema set
VariableKnown ==
    /\ qSchemas.defined
    /\ qPath.found
    /\ variableNameOf(RequestSegments) \in DOMAIN qSchemas.set

\* what the other segments of the request's path resolve to in the variable's descriptor
RequestResolved ==
    navigateSchema(qSchemas.set[variableNameOf(RequestSegments)],
                   pathWithoutVariableName(RequestSegments))

\* C15: no request throws; when the model has no schema set, when the first segment of
\* the path is not a variable of the set, or when the path does not resolve, hover
\* returns null and completion returns no suggestion from the schemas.
C15_SilentFailure ==
    qpc = "items" =>
        /\ qHover.kind # "TypeError"
        /\ qItems.kind # "TypeError"
        /\ ~qSchemas.defined => qHover = HoverNull /\ qItems.schemaSuggestions = {}
        /\ qSchemas.defined /\ qPath.found /\ ~VariableKnown =>
               qHover = HoverNull /\ qItems.schemaSuggestions = {}
        /\ VariableKnown /\ RequestResolved = Null =>
               qHover = HoverNull /\ qItems.schemaSuggestions = {}

\* a request on a path of two segments in a model without schemas was answered with
\* null and with no suggestion from schemas
C15_Witness ==
    /\ qpc = "items"
    /\ ~qSchemas.defined
    /\ qPath.found
    /\ Len(RequestSegments) = 2
    /\ qHover = HoverNull
    /\ qItems.kind = "items"
    /\ qItems.schemaSuggestions = {}

\* the object whose fields a resolved path offers: the resolved object itself, or
\* the element of the resolved array
OfferedObject ==
    IF RequestResolved.type = "array" THEN unwrapSchema(RequestResolved.element)
    ELSE RequestResolved

\* C17: when the text before the cursor is a path that ends in '.', starts with a
\* variable of the schema set and resolves to an object or to an array of objects,
\* the suggestions from the schemas are that object's field names, one for each
\* field; product. gives name, price and tags.
C17_FieldSuggestions ==
    qpc = "items" =>
        /\ (/\ VariableKnown
            /\ At(qPath.path, Len(qPath.path) - 1) = "."
            /\ RequestResolved # Null
            /\ OfferedObject.type = "object")
           => /\ {i.label : i \in qItems.schemaSuggestions} = DOMAIN OfferedObject.shape
              /\ Cardinality(qItems.schemaSuggestions)
                     = Cardinality(DOMAIN OfferedObject.shape)
        /\ (qSchemas.defined /\ qSchemas.set = ProductSchemas
            /\ qLine = "{{ product." /\ qColumn = 12)
           => {i.label : i \in qItems.schemaSuggestions} = {"name", "price", "tags"}

\* order.cart[0]. was completed with the one field of the objects of the array
C17_Witness ==
    /\ qpc = "items"
    /\ VariableKnown
    /\ qPath.path = "order.cart[0]."
    /\ RequestResolved.type = "object"
    /\ {i.label : i \in qItems.schemaSuggestions} = {"name"}

-----------------------------------------------------------------------------
(* Claims about setModelLiquidValidation and the requests of the editor.   *)

\* the calls of setModelLiquidValidation made on a model
CalledOn(mdl) == {a \in AttIds : att[a].state # "free" /\ att[a].model = mdl}

\* the most recent of them
LatestCall(mdl) == CHOOSE a \in CalledOn(mdl) : \A b \in CalledOn(mdl) : b <= a

\* what hover and completion answer at every column of the first line of a text
RequestAnswers(modelSchemas, t) ==
    LET lineContent == SplitLines(t)[1]
    IN  [column \in 1..(Len(lineContent) + 1) |->
            [hover |-> provideHover(modelSchemas, lineContent, column),
             items |-> provideCompletionItems(modelSchemas, lineContent, column)]]

\* the values model.schemas can have in the editor
ModelSchemas == {NoSchemas} \cup {[defined |-> TRUE, set |-> set] : set \in SchemaSets}

\* the answers for each text and each value of model.schemas
answersFor == [t \in EditTexts |-> [ms \in ModelSchemas |-> RequestAnswers(ms, t)]]

\* C13: once setModelLiquidValidation has been called on a model, hover and completion
\* at every position of the model answer what they answer from the schema set of the
\* most recent call.
C13_LatestSchemas ==
    \A mdl \in Models :
        CalledOn(mdl) # {} =>
            answersFor[value[mdl]][schemas[mdl]]
                = answersFor[value[mdl]][[defined |-> TRUE,
                                          set |-> att[LatestCall(mdl)].schemas]]

\* after a call with the product schemas and a later call with the user schemas on a
\* model, hover on user.name in that model answers String
C13_Witness ==
    \E mdl \in Models :
        /\ Cardinality(CalledOn(mdl)) = 2
        /\ \E a \in CalledOn(mdl) : a < LatestCall(mdl) /\ att[a].schemas = ProductSchemas
        /\ att[LatestCall(mdl)].schemas = UserSchemas
        /\ value[mdl] = "{% if user.name %}"
        /\ answersFor[value[mdl]][schemas[mdl]][16].hover
               = [kind |-> "hover", contents |-> MarkdownType("String")]

\* C14: a call of setModelLiquidValidation stores its schema set on the model and
\* publishes the markers of the model's current text before it returns, without
\* setting a timeout.
C14_SynchronousFirstPass ==
    [][\A mdl \in Models, set \in SchemaSets, debounceMs \in 1..MaxDebounce :
          SetModelLiquidValidation(mdl, set, debounceMs) =>
              /\ schemas'[mdl] = [defined |-> TRUE, set |-> set]
              /\ modelMarkers'[mdl] = passOver[value[mdl]]
              /\ value' = value
              /\ timers' = timers]_vars

\* the only call made on a model has had no change notification and no timeout, and
\* the marker of the unclosed tag of the model's text is published
C14_Witness ==
    \E a \in AttIds :
        /\ att[a].state = "live"
        /\ CalledOn(att[a].model) = {a}
        /\ ~hist[a].notified
        /\ PendingOf(a) = {}
        /\ schemas[att[a].model] = [defined |-> TRUE, set |-> att[a].schemas]
        /\ modelMarkers[att[a].model] # <<>>
        /\ modelMarkers[att[a].model] = validateLiquidSyntax(value[att[a].model])

-----------------------------------------------------------------------------
(* Claims about the frames of the validator, checked under ScanSpec.       *)

IsOutputFrame(frame) == frame.tag = "output"

IsBlockFrame(frame) == frame.tag # "output"

\* the positions of the output frames of a stack
OutputPositions(stk) == {i \in 1..Len(stk) : IsOutputFrame(stk[i])}

\* C18: an output-close removes the output frame nearest the top and leaves every
\* other frame in place and in order, with no new marker; on a stack without an
\* output frame it leaves the stack as it is and adds one "Unmatched closing '}}'"
\* marker at its column.
C18_OutputCloseNearestFrame ==
    lastStep.type = "end" =>
        LET before == lastStep.stackBefore
        IN  /\ OutputPositions(before) # {} =>
                \E k \in OutputPositions(before) :
                    /\ \A j \in OutputPositions(before) : j <= k
                    /\ stack = RemoveAt(before, k)
                    /\ markers = lastStep.markersBefore
            /\ OutputPositions(before) = {} =>
                /\ stack = before
                /\ markers = Append(lastStep.markersBefore,
                       Marker("Unmatched closing '}}'",
                              lastStep.lineNumber, lastStep.match.index + 1,
                              lastStep.lineNumber, lastStep.match.index + 3))

\* an output-close has removed an output frame that lay below a block frame
C18_Witness ==
    /\ lastStep.type = "end"
    /\ \E k \in OutputPositions(lastStep.stackBefore) :
           /\ k < Len(lastStep.stackBefore)
           /\ \A j \in OutputPositions(lastStep.stackBefore) : j <= k
           /\ stack = RemoveAt(lastStep.stackBefore, k)
    /\ SelectSeq(stack, IsBlockFrame) = SelectSeq(lastStep.stackBefore, IsBlockFrame)
    /\ SelectSeq(stack, IsBlockFrame) # <<>>

\* C19 (as claimed): a closing block tag leaves the output frames on the stack and
\* reports none of them, an output-close leaves the block frames on the stack, and
\* in the document with an unclosed output-open on the line between an if and its
\* endif the endif matches the if, so that only the output-open is reported.
C19_IndependentScopes ==
    /\ lastStep.type = "endTag" =>
        /\ SelectSeq(stack, IsOutputFrame) = SelectSeq(lastStep.stackBefore, IsOutputFrame)
        /\ Len(markers) > Len(lastStep.markersBefore) =>
               markers[Len(markers)].message
                   # "Expected 'endoutput' but found 'end" \o lastStep.match.tag \o "'"
    /\ lastStep.type = "end" =>
        SelectSeq(stack, IsBlockFrame) = SelectSeq(lastStep.stackBefore, IsBlockFrame)
    /\ (pc = "done" /\ text = OutputBetween) =>
        published = <<Marker("Unclosed output tag '{{'", 2, 1, 2, 3)>>

\* the markers are in the order of their start positions
RECURSIVE InDocumentOrder(_)
InDocumentOrder(ms) ==
    \/ Len(ms) < 2
    \/ /\ \/ ms[1].startLineNumber < ms[2].startLineNumber
          \/ /\ ms[1].startLineNumber = ms[2].startLineNumber
             /\ ms[1].startColumn <= ms[2].startColumn
       /\ InDocumentOrder(Tail(ms))

\* C20 (as claimed): within a line the constructs are applied to the stack from left
\* to right, so no match that is still to be replayed starts before the one just
\* replayed, and the markers found while scanning are listed from left to right.
C20_LeftToRight ==
    /\ lastStep.type \in {"start", "end", "tag", "endTag"} =>
        \A i \in 1..Len(work) : lastStep.match.index <= work[i].index
    /\ pc = "scan" => InDocumentOrder(markers)

-----------------------------------------------------------------------------
(* Claims about the end of a pass, checked under ScanSpec.                 *)

\* the stack and the markers when the last line of a text has been replayed
AfterLastLine(t) == replayLines([stack |-> <<>>, markers |-> <<>>], SplitLines(t), 0)

\* the marker that reports a frame as unclosed
UnclosedMarker(frame) ==
    Marker(IF frame.tag = "output" THEN "Unclosed output tag '{{'"
           ELSE "Unclosed tag '" \o frame.tag \o "'",
           frame.lineNumber, frame.column, frame.lineNumber, frame.column + frame.length)

\* C21: what a pass publishes is the markers found while scanning, followed by one
\* unclosed marker for each frame left on the stack after the last line, from the top
\* of the stack down, each with its frame's line, column and tag (or the output
\* label); the stack is empty when the pass ends.
C21_DrainReportsEveryFrame ==
    pc = "done" =>
        LET left == AfterLastLine(text)
            n == Len(left.stack)
        IN  /\ stack = <<>>
            /\ published = left.markers
                   \o [i \in 1..n |-> UnclosedMarker(left.stack[n + 1 - i])]

\* a pass has ended that found a marker while scanning and left an output frame and a
\* block frame on the stack
C21_Witness ==
    /\ pc = "done"
    /\ AfterLastLine(text).markers # <<>>
    /\ \E i, j \in 1..Len(AfterLastLine(text).stack) :
           /\ AfterLastLine(text).stack[i].tag = "output"
           /\ AfterLastLine(text).stack[j].tag # "output"
    /\ Len(published) >= 3

-----------------------------------------------------------------------------
(* Numeric segments, checked under ResolveSpec.                            *)

\* a descriptor that has elements or fields under its wrappers
Traversable(d) == Bare(d).type \in {"array", "object"}

\* what the segments before the i-th segment of the path resolve to
BeforeSegment(i) == navigateSchema(rSchema, SubSeq(rPath, 1, i - 1))

\* C22: a path with a numeric segment that meets a descriptor which is neither an
\* array nor an object (["name", "0"] on Object{name: String}) is not resolvable.
C22_IndexNeedsTraversable ==
    rpc # "start" =>
        \A i \in 1..Len(rPath) :
            (/\ IsIndex(rPath[i])
             /\ BeforeSegment(i) # Null
             /\ ~Traversable(BeforeSegment(i)))
            => rWhole = Null

\* the path of the example resolves to String
C22_IndexOnString ==
    /\ rpc # "start"
    /\ rSchema = NameObject(ZString)
    /\ rPath = <<"name", "0">>
    /\ rWhole = ZString

-----------------------------------------------------------------------------
(* Type rendering (specification RenderSpec): getTypeString on a           *)
(* descriptor, then getTypeInfoFromSchema on the descriptor and a path.    *)
(* The descriptors are built with at most MaxNesting constructors around   *)
(* a leaf of every class getTypeString knows and one it does not.          *)

MaxNesting == 2

RenderLeaves ==
    {ZString, ZNumber, ZBoolean, ZDate,
     ZLiteral(StringValue("a")), ZLiteral(NumberValue(42)), ZLiteral(BooleanValue(TRUE)),
     ZEnum(<<"a", "b">>), ZAny}

\* what a union pairs its first option with
SecondOptions == {ZNumber, ZOptional(ZLiteral(StringValue("a"))), ZAny}

\* z.object({ price: <price> })
PriceObject(price) == ZObject([f \in {"price"} |-> price])

RenderAround(S) ==
    {ZOptional(x) : x \in S} \cup {ZNullable(x) : x \in S} \cup {ZDefault(x) : x \in S}
    \cup {ZArray(x) : x \in S} \cup {PriceObject(x) : x \in S}
    \cup {ZUnion(<<x, y>>) : x \in S, y \in SecondOptions}

RECURSIVE RenderSchemasOfDepth(_)
RenderSchemasOfDepth(d) ==
    IF d = 0 THEN RenderLeaves ELSE RenderAround(RenderSchemasOfDepth(d - 1))

\* product of the README: Object{ name: String, price: Number, tags: Array<String> }
ProductSchema == ProductSchemas["product"]

RenderSchemas ==
    UNION {RenderSchemasOfDepth(d) : d \in 0..MaxNesting} \cup {ProductSchema}

RenderPaths == {<<>>, <<"price">>, <<"price", "0">>}

RenderInit ==
    /\ rSchema \in RenderSchemas
    /\ rPath \in RenderPaths
    /\ rWhole = NotYet
    /\ rHead = NotYet
    /\ rRest = NotYet
    /\ rpc = "start"
    /\ rType = ""
    /\ rInfo = [found |-> FALSE]
    /\ ScanIdle
    /\ EditorIdle
    /\ RequestIdle

\* getTypeString(schema)
GetTypeString ==
    /\ rpc = "start"
    /\ rType' = getTypeString(rSchema)
    /\ rpc' = "string"
    /\ UNCHANGED <<rSchema, rPath, rWhole, rHead, rRest, rInfo>>
    /\ UNCHANGED <<scanVars, editorVars, requestVars>>

\* getTypeInfoFromSchema(schema, path)
GetTypeInfoFromSchema ==
    /\ rpc = "string"
    /\ rInfo' = getTypeInfoFromSchema(rSchema, rPath)
    /\ rpc' = "info"
    /\ UNCHANGED <<rSchema, rPath, rWhole, rHead, rRest, rType>>
    /\ UNCHANGED <<scanVars, editorVars, requestVars>>

RenderNext ==
    \/ GetTypeString
    \/ GetTypeInfoFromSchema

RenderSpec == RenderInit /\ [][RenderNext]_vars

\* the names of the classes that render as a name
TypeNames ==
    [object |-> "Object", string |-> "String", number |-> "Number",
     boolean |-> "Boolean", date |-> "Date"]

\* the text of a literal: a string in double quotes, a number in decimal, true or false
LiteralText(v) ==
    CASE v.typeof = "string" -> "\"" \o v.string \o "\""
      [] v.typeof = "boolean" -> (IF v.boolean THEN "true" ELSE "false")
      [] v.typeof = "number" -> ToString(v.number)

RECURSIVE Separated(_)
\* the texts of a sequence with " | " between them
Separated(texts) ==
    IF Len(texts) <= 1 THEN (IF texts = <<>> THEN "" ELSE texts[1])
    ELSE Separated(SubSeq(texts, 1, Len(texts) - 1)) \o " | " \o texts[Len(texts)]

RECURSIVE Rendered(_, _)
\* the rendering of a descriptor: of what is under its wrappers, at every level;
\* literals says whether a literal renders as its text or falls under "anything else"
Rendered(d, literals) ==
    LET b == Bare(d)
    IN  IF b.type \in DOMAIN TypeNames THEN TypeNames[b.type]
        ELSE IF b.type = "array" THEN "Array<" \o Rendered(b.element, literals) \o ">"
        ELSE IF b.type = "enum"
             THEN Separated([i \in DOMAIN b.entries |-> "\"" \o b.entries[i] \o "\""])
        ELSE IF b.type = "union"
             THEN Separated([i \in DOMAIN b.options |-> Rendered(b.options[i], literals)])
        ELSE IF literals /\ b.type = "literal" THEN LiteralText(b.values[1])
        ELSE "Unknown"

\* the classes getTypeString has a branch for
Recognised(d) ==
    Bare(d).type \in DOMAIN TypeNames \cup {"array", "enum", "union", "literal"}

\* C23 (amended): rendering unwraps at every level and maps Object, String, Number,
\* Boolean, Date to their names, Array(T) to "Array<render(T)>", a literal to its
\* value (a string in double quotes), an enum to its quoted values joined by " | ",
\* a union to its rendered options joined by " | ", anything else to "Unknown"; a
\* wrapper around a recognised class never renders as "Unknown",
\* Array(Optional(String)) renders "Array<String>", and the type information of the
\* path ["price"] in the product of the README is Number.
C23_RenderingWithLiterals ==
    /\ rpc \in {"string", "info"} =>
           /\ rType = Rendered(rSchema, TRUE)
           /\ (rSchema.type \in WrapperTypes /\ Recognised(rSchema)) => rType # "Unknown"
           /\ rSchema = ZArray(ZOptional(ZString)) => rType = "Array<String>"
    /\ rpc = "info" =>
           /\ rInfo.found = (navigateSchema(rSchema, rPath) # Null)
           /\ rInfo.found => rInfo.text = Rendered(navigateSchema(rSchema, rPath), TRUE)
           /\ (rSchema = ProductSchema /\ rPath = <<"price">>)
                  => rInfo = [found |-> TRUE, text |-> "Number"]

\* C23 as stated: a literal is among "anything else" and renders as "Unknown"
C23_RenderingAsStated ==
    rpc \in {"string", "info"} => rType = Rendered(rSchema, FALSE)

\* the type information of a field has been asked for whose descriptor is an optional
\* literal, and it is the text of the literal
C23_Witness ==
    /\ rpc = "info"
    /\ rSchema = PriceObject(ZOptional(ZLiteral(StringValue("a"))))
    /\ rPath = <<"price">>
    /\ rType = "Object"
    /\ rInfo = [found |-> TRUE, text |-> "\"a\""]

-----------------------------------------------------------------------------
(* The validator on tags of every name (specification TagSpec): one tag of *)
(* each name of TagNames, with or without arguments, after and before the  *)
(* constructs of Before and After.  The steps are those of ScanSpec.       *)

TagNames ==
    {"if", "unless", "case", "for", "tablerow", "comment", "raw", "capture", "form",
     "paginate", "layout", "block", "schema", "stylesheet", "javascript", "liquid",
     "assign", "include", "7", "foo", "iff", "else", "end", "endif", "endfoo"}

TagTexts == {"{% " \o name \o " %}" : name \in TagNames}
            \cup {"{%- " \o name \o " x -%}" : name \in TagNames}

Before == {"", "{% for y %}", "{{ y }}\n", "{% endif %}"}

After == {"", "{% endfor %}", "\n{{"}

TagDocuments == {b \o t \o a : b \in Before, t \in TagTexts, a \in After}

TagInit ==
    /\ text \in TagDocuments
    /\ lines = <<>>
    /\ lineIdx = 0
    /\ work = <<>>
    /\ stack = <<>>
    /\ markers = <<>>
    /\ pc = "start"
    /\ published = <<>>
    /\ lastStep = NoStep
    /\ earlier = {}
    /\ ResolveIdle
    /\ EditorIdle
    /\ RequestIdle

TagSpec == TagInit /\ [][ScanNext]_vars

\* the sixteen keywords
BlockTagKeywords ==
    {"if", "unless", "case", "for", "tablerow", "comment", "raw", "capture", "form",
     "paginate", "layout", "block", "schema", "stylesheet", "javascript", "liquid"}

\* C24: the step for an opening tag appends one frame with the tag's name, line,
\* column and length when the name is one of the sixteen block-tag keywords and does
\* not start with "end", and otherwise leaves the stack as it was; in both cases it
\* adds no marker.
C24_BlockTagsPush ==
    lastStep.type = "tag" =>
        LET name == lastStep.match.tag
            startsWithEnd == Len(name) >= 3 /\ SubSeq(name, 1, 3) = "end"
        IN  /\ markers = lastStep.markersBefore
            /\ IF name \in BlockTagKeywords /\ ~startsWithEnd
               THEN stack = Append(lastStep.stackBefore,
                                   [tag |-> name, lineNumber |-> lastStep.lineNumber,
                                    column |-> lastStep.match.index + 1,
                                    length |-> lastStep.match.length])
               ELSE stack = lastStep.stackBefore

\* an include tag has been replayed after a for tag: the frame of the for is on the
\* stack and the include has added nothing
C24_Witness ==
    /\ lastStep.type = "tag"
    /\ lastStep.match.tag = "include"
    /\ Len(lastStep.stackBefore) = 1
    /\ lastStep.stackBefore[1].tag = "for"
    /\ stack = lastStep.stackBefore
    /\ pc = "scan"

-----------------------------------------------------------------------------
(* Timers per document, checked under Spec.                                *)

\* C25: in every reachable state a document has at most one pending validation
\* timer, also after several calls of setModelLiquidValidation on it.
C25_OneTimerPerDocument ==
    \A mdl \in Models : Cardinality(PendingOn(mdl)) <= 1

\* two calls on one document, neither disposed, each with a pending timer of its own
C25_TwoTimers ==
    \E a, b \in AttIds :
        /\ a # b
        /\ att[a].state = "live" /\ att[b].state = "live"
        /\ att[a].model = att[b].model
        /\ PendingOf(a) # {} /\ PendingOf(b) # {}

-----------------------------------------------------------------------------
(* The editor with the scheduling of the host (specification LiveSpec):    *)
(* time passes while a timeout is running, and the event loop runs the     *)
(* callback of every timeout whose delay has passed unless it is cleared.  *)
(* The calls and the edits are those on one document; the other document   *)
(* keeps its text and has no attachment (documents share nothing but time).*)

LiveModel == "m1"

LiveNext ==
    \/ \E set \in SchemaSets, debounceMs \in 1..MaxDebounce :
           SetModelLiquidValidation(LiveModel, set, debounceMs)
    \/ \E t \in EditTexts : ChangeContent(LiveModel, t)
    \/ Tick
    \/ \E t \in timers : TimerFires(t)
    \/ \E a \in AttIds : Dispose(a)

\* the event loop runs a due timeout of attachment a
RunsTimeoutOf(a) == \E t \in PendingOf(a) : TimerFires(t)

LiveSpec ==
    /\ EditorInit
    /\ [][LiveNext]_vars
    /\ WF_vars(Tick)
    /\ \A a \in AttIds : WF_vars(RunsTimeoutOf(a))

\* attachment a is attached to mdl, not disposed, the text of mdl is t, and no
\* timeout of a is pending
Settled(a, mdl, t) ==
    /\ att[a].state = "live"
    /\ att[a].model = mdl
    /\ value[mdl] = t
    /\ PendingOf(a) = {}

\* C26: for an attachment that is not disposed, (1) a pending timeout leads to a state
\* where a pass has published the markers of the text and no timeout of the
\* attachment is pending, unless the text changes again or the attachment is
\* disposed first; (2) if from some time on the attachment stays attached and the
\* text stays t, then from some time on no timeout of the attachment is pending and,
\* when a change was notified, its one pass has published the markers of t.
C26_EventuallyValidated ==
    \A a \in AttIds, mdl \in Models, t \in EditTexts :
        /\ (/\ att[a].state = "live"
            /\ att[a].model = mdl
            /\ value[mdl] = t
            /\ PendingOf(a) # {})
           ~> (\/ Settled(a, mdl, t) /\ modelMarkers[mdl] = passOver[t]
               \/ value[mdl] # t
               \/ att[a].state # "live")
        /\ <>[](att[a].state = "live" /\ att[a].model = mdl /\ value[mdl] = t)
           => <>[](/\ PendingOf(a) = {}
                   /\ hist[a].notified
                      => hist[a].passes = 1 /\ hist[a].passMarkers = passOver[t])

\* after a change to a text with an unclosed tag, the pass of a live attachment has
\* run and published its marker, and no timeout is pending
C26_Witness ==
    \E a \in AttIds :
        /\ att[a].state = "live"
        /\ hist[a].notified
        /\ hist[a].passes = 1
        /\ timers = {}
        /\ value[att[a].model] = "{% if user.name %}"
        /\ modelMarkers[att[a].model] = passOver["{% if user.name %}"]
        /\ modelMarkers[att[a].model] # <<>>

-----------------------------------------------------------------------------
(* Counting the frames and the markers of a pass, checked under ScanSpec.  *)
(* The tally follows the replay of the text and counts each match by what  *)
(* it meets on the stack.                                                  *)

NoCounts ==
    [pushed |-> 0, closed |-> 0, unmatchedOutput |-> 0, unmatchedEnd |-> 0,
     mismatched |-> 0]

\* the counts c after the match m, which meets the stack of st
CountMatch(st, m, c) ==
    CASE m.type = "start" -> [c EXCEPT !.pushed = @ + 1]
      [] m.type = "end" ->
             IF \E i \in 1..Len(st.stack) : st.stack[i].tag = "output"
             THEN [c EXCEPT !.closed = @ + 1]
             ELSE [c EXCEPT !.unmatchedOutput = @ + 1]
      [] m.type = "tag" ->
             IF m.tag \in BlockTagKeywords /\ ~StartsWithEnd(m.tag)
             THEN [c EXCEPT !.pushed = @ + 1]
             ELSE c
      [] m.type = "endTag" ->
             IF st.stack = <<>> THEN [c EXCEPT !.unmatchedEnd = @ + 1]
             ELSE IF st.stack[Len(st.stack)].tag # m.tag
                  THEN [c EXCEPT !.closed = @ + 1, !.mismatched = @ + 1]
             ELSE [c EXCEPT !.closed = @ + 1]

RECURSIVE TallyWork(_, _, _, _)
\* the stack, markers and counts after the matches ms of one line
TallyWork(st, ms, lineNumber, c) ==
    IF ms = <<>> THEN [st |-> st, counts |-> c]
    ELSE TallyWork(applyMatch(st, Head(ms), lineNumber), Tail(ms), lineNumber,
                   CountMatch(st, Head(ms), c))

RECURSIVE TallyLines(_, _, _, _)
TallyLines(st, ls, i, c) ==
    IF i >= Len(ls) THEN c
    ELSE LET line == TallyWork(st, LineWork(ls[i + 1]), i + 1, c)
         IN  TallyLines(line.st, ls, i + 1, line.counts)

\* the counts of a whole text
Tally(t) == TallyLines([stack |-> <<>>, markers |-> <<>>], SplitLines(t), 0, NoCounts)

\* how many of the markers ds have a message that starts with prefix
CountOf(ds, prefix) ==
    Cardinality({i \in 1..Len(ds) :
        /\ Len(ds[i].message) >= Len(prefix)
        /\ SubSeq(ds[i].message, 1, Len(prefix)) = prefix})

\* C27: once the lines are replayed, the frames still on the stack and the unclosed
\* markers emitted so far together number (frames pushed) - (frames removed by
\* closers), so a finished pass has exactly that many unclosed markers; the markers
\* number unmatched output-closes + unmatched end tags + mismatched end tags +
\* unclosed frames, each kind with its own message.
C27_FrameConservation ==
    pc \in {"drain", "done"} =>
        LET c == Tally(text)
            ds == IF pc = "done" THEN published ELSE markers
        IN  /\ Len(stack) + CountOf(ds, "Unclosed") = c.pushed - c.closed
            /\ pc = "done" => CountOf(ds, "Unclosed") = c.pushed - c.closed
            /\ Len(ds) = c.unmatchedOutput + c.unmatchedEnd + c.mismatched
                         + CountOf(ds, "Unclosed")
            /\ CountOf(ds, "Unmatched closing") = c.unmatchedOutput
            /\ CountOf(ds, "Unmatched end tag") = c.unmatchedEnd
            /\ CountOf(ds, "Expected") = c.mismatched

\* a finished pass that pushed two frames, removed one with a mismatched end tag, met
\* an unmatched closer, and drained the other frame
C27_Witness ==
    /\ pc = "done"
    /\ Tally(text).pushed >= 2
    /\ Tally(text).closed >= 1
    /\ Tally(text).mismatched >= 1
    /\ Tally(text).unmatchedOutput + Tally(text).unmatchedEnd >= 1
    /\ CountOf(published, "Unclosed") >= 1

-----------------------------------------------------------------------------
(* The order of the work within one line, checked under ScanSpec.          *)

\* the loop of the line that replays a match: 1 the output delimiters, 2 the matches
\* of tagRegex, 3 the matches of endTagRegex
Phase(m) == CASE m.type \in {"start", "end"} -> 1
              [] m.type = "tag" -> 2
              [] m.type = "endTag" -> 3

EndBeforeOpen == "{% endif %}{% if x %}"

\* C28: within a line every output delimiter is replayed before every match of an
\* opening tag and these before every closing tag, the output delimiters among
\* themselves by column; `{% endif %}{% if x %}` publishes no marker; and on the stack
\* no block frame lies below an output frame of the same line.
C28_ThreePhases ==
    /\ pc = "scan" =>
           /\ \A i, j \in 1..Len(work) :
                  i < j => /\ Phase(work[i]) <= Phase(work[j])
                           /\ Phase(work[j]) = 1 => work[i].index <= work[j].index
           /\ lastStep.type \in {"start", "end", "tag", "endTag"} =>
                  \A j \in 1..Len(work) :
                      /\ Phase(lastStep.match) <= Phase(work[j])
                      /\ Phase(work[j]) = 1 => lastStep.match.index <= work[j].index
    /\ (pc = "done" /\ text = EndBeforeOpen) => published = <<>>
    /\ \A i, j \in 1..Len(stack) :
           (i < j /\ stack[i].lineNumber = stack[j].lineNumber)
               => ~(stack[i].tag # "output" /\ stack[j].tag = "output")

\* a closing tag has just removed, without a marker, the frame of an opening tag that
\* stands to its right on the same line, with an output frame of that line below it
C28_Witness ==
    /\ pc = "scan"
    /\ lastStep.type = "endTag"
    /\ Len(lastStep.stackBefore) = 2
    /\ lastStep.stackBefore[2].tag = lastStep.match.tag
    /\ lastStep.stackBefore[2].lineNumber = lastStep.lineNumber
    /\ lastStep.stackBefore[2].column > lastStep.match.index + 1
    /\ lastStep.stackBefore[1].tag = "output"
    /\ lastStep.stackBefore[1].lineNumber = lastStep.lineNumber
    /\ lastStep.stackBefore[1].column > lastStep.stackBefore[2].column
    /\ markers = lastStep.markersBefore
    /\ Len(stack) = 1

-----------------------------------------------------------------------------
(* Completion of variable names, checked under RequestSpec.                *)

\* a variable path precedes the cursor
PathPrecedes == PathStarts(TextBeforeCursor) # {}

\* the suggestions for the variables of the schema set (sortText 0...)
TopLevelItems(items) == {i \in items : SubSeq(i.sortText, 1, 1) = "0"}

\* C29: for a model with a schema set, the variables of the set are suggested exactly
\* when no variable path precedes the cursor (and then all of them, and nothing
\* else from the schemas); when a path precedes the cursor and its first segment is
\* not a variable of the set, or its other segments do not resolve, there is no
\* suggestion from the schemas; the keyword suggestions are returned in every case.
C29_VariablesOnlyWithoutPath ==
    qpc = "items" =>
        /\ {i.label : i \in qItems.keywordSuggestions} = keywords
        /\ \A i \in qItems.keywordSuggestions : i.kind = "Keyword"
        /\ qSchemas.defined =>
               /\ TopLevelItems(qItems.schemaSuggestions) # {} => ~PathPrecedes
               /\ ~PathPrecedes =>
                      /\ qItems.schemaSuggestions = TopLevelItems(qItems.schemaSuggestions)
                      /\ {i.label : i \in qItems.schemaSuggestions} = DOMAIN qSchemas.set
                      /\ \A i \in qItems.schemaSuggestions : i.kind = "Variable"
               /\ (PathPrecedes /\ (~VariableKnown \/ RequestResolved = Null))
                      => qItems.schemaSuggestions = {}

\* completion was asked for after `{{ pro` with the product schema set: a partially
\* typed variable name, no suggestion from the schemas, the keywords returned
C29_Witness ==
    /\ qpc = "items"
    /\ qSchemas.defined
    /\ qSchemas.set = ProductSchemas
    /\ qLine = "{{ product."
    /\ qColumn = 7
    /\ qPath.found
    /\ qPath.path = "pro"
    /\ qItems.schemaSuggestions = {}
    /\ qItems.keywordSuggestions # {}

=============================================================================
